---- MODULE Spec2Model ----
(***************************************************************************)
(* Key engine of ln80/pii: the DynamoDB key store (dynamodb.Engine), as a  *)
(* table of key items of one namespace partition that several callers     *)
(* read and write through conditional single-item store calls, and the    *)
(* in-memory engine (memory.engine), used as a store of its own and as a  *)
(* cache wrapper on top of the DynamoDB store; the KMS wrapper's lifecycle *)
(* calls, which it passes to its origin.                                  *)
(***************************************************************************)
EXTENDS Integers, Sequences, FiniteSets, TLC

\* ------------------------------------------------------------------ bounds
MaxClock == 2
EpochSec == 1700000000
GracePeriod == 1
CacheTTL == 1

\* ---------------------------------------------------------------- universe
Procs == {"p1", "p2"}
Namespace == "tnt"
KeyIDs == {"a", "b"}
\* "" is the key ID the sweep reads from an item that has no _kid attribute
AllIDs == KeyIDs \cup {""}

StateActive == "ACTIVE"
StateDisabled == "DISABLED"
StateDeleted == "DELETED"
\* _state of an item that is not in the table
NoItem == "NONE"
\* _key attribute: not set / set to NULL (else the bytes of a generated key)
Absent == <<"absent">>
Null == <<"null">>
\* the empty byte string
NoBytes == <<>>

ErrNil == "nil"
ErrKeyNotFound == "ErrKeyNotFound"
\* the run-time panic of a nil pointer dereference
PanicNilDeref == "panic: nil pointer dereference"

VARIABLES
    items,      \* DynamoDB table: the key item of every key ID of the namespace
    registry,   \* DynamoDB table: the namespaces of the "#ns_" partition
    clock,      \* time.Now(), in seconds since EpochSec
    cache,      \* memory.engine: the keyCache entry of every key ID
    pc,         \* per caller: where its call in progress stands
    loc,        \* per caller: the locals of its call in progress
    ret,        \* what the last step returned
    deleted,    \* history: the key IDs whose DeleteKey has returned nil
    prot,       \* the Protector: its configuration, and the history of its calls
    tokens,     \* DynamoDB table: the token items of the namespace, and the uuids drawn
    fact,       \* the factory: its registry, its traceables, its monitor
    wire        \* a caller of the wire format: its inputs, its string, its parse

vars == <<items, registry, clock, cache, pc, loc, ret, deleted, prot, tokens, fact, wire>>

\* ----------------------------------------------------------------- helpers
EmptyMap == [x \in {} |-> NoBytes]

\* byte order of the key IDs ("" < "a" < "b")
IdRank(id) == CASE id = "" -> 0 [] id = "a" -> 1 [] id = "b" -> 2 [] OTHER -> 3

\* time.Time.Unix() of the clock, which counts the seconds since EpochSec
Unix(t) == EpochSec + t

\* keyGen: fresh random material, different for every caller and key ID
KeyGen(p, id) == <<p, id>>

RECURSIVE FormatInt(_)
\* strconv.FormatInt(n, 10) for n >= 0, as the sequence of its decimal digits
FormatInt(n) == IF n < 10 THEN <<n>> ELSE Append(FormatInt(n \div 10), n % 10)

RECURSIVE SeqLE(_, _)
\* byte-wise (lexicographic) order of two strings given as sequences
SeqLE(s, t) ==
    IF s = <<>> THEN TRUE
    ELSE IF t = <<>> THEN FALSE
    ELSE IF Head(s) < Head(t) THEN TRUE
    ELSE IF Head(s) > Head(t) THEN FALSE
    ELSE SeqLE(Tail(s), Tail(t))

\* _lsik values: none, "enabled@<keyID>", "disabled@<unix seconds>"
NoLsi == <<"none">>
LsiEnabled(id) == <<"enabled", id>>
LsiDisabled(sec) == <<"disabled", FormatInt(sec)>>

\* string order of two _lsik values: "disabled@..." < "enabled@..."
LsiLE(x, y) ==
    IF x[1] # y[1] THEN x[1] = "disabled"
    ELSE IF x[1] = "disabled" THEN SeqLE(x[2], y[2])
    ELSE IdRank(x[2]) <= IdRank(y[2])

\* an item that is not in the table
NoRecord ==
    [state |-> NoItem, kid |-> FALSE, key |-> Absent, createdAt |-> 0,
     enabledAt |-> 0, disabledAt |-> 0, deletedAt |-> 0, lsik |-> NoLsi]

\* string(item.Key): the bytes of the _key attribute
KeyBytes(r) == IF r.key \in {Absent, Null} THEN NoBytes ELSE r.key

\* expression.IfNotExists on a timestamp attribute (0: attribute not set)
IfNotExists(old, new) == IF old = 0 THEN new ELSE old

\* locals of a call in progress: GetOrCreateKeys' keyIDs, keys, the missed keys
\* still to create (todo), the material of the missed keys put so far (gen),
\* the KMS wrapper's numberOfBytes if it made the call (kms, else 0) and the
\* key IDs of its newKeys (new);
\* whether protector.encrypt made the call (prot); history: the subjects that
\* were forgotten when it made the call and have not been recovered since (fg);
\* createKeys' disabledOrDeleted (dod) and freshNew (fresh);
\* DeleteUnusedKeys' items (scan); whether the call runs inside the cache
\* wrapper, which holds its mutex for as long (wrap); history: the keyIDs
\* whose DeleteKey had returned nil when the call began (del)
NoLoc ==
    [ids |-> {}, keys |-> EmptyMap, gen |-> EmptyMap, todo |-> <<>>,
     dod |-> {}, fresh |-> EmptyMap, scan |-> <<>>, wrap |-> FALSE, del |-> {},
     prot |-> FALSE, fg |-> {}, kms |-> 0, new |-> {}]

\* a key ID that has no entry in the cache map of memory.engine
NoEntry == [in |-> FALSE, key |-> NoBytes, at |-> 0, state |-> NoItem]

\* newKeyCache
newKeyCache(k, now) == [in |-> TRUE, key |-> k, at |-> Unix(now), state |-> StateActive]

\* what the last step returned to a caller, NoRet if it returned nothing:
\* caller, engine called ("store", "cache", "kms"), operation, arguments,
\* error and key map, and the key IDs of createKeys' freshNew; of a Protector
\* call also the base of its error and the field value it leaves in the struct
NoRet ==
    [proc |-> "none", via |-> "none", op |-> "none", id |-> "", ids |-> {},
     err |-> ErrNil, keys |-> EmptyMap, fresh |-> {}, base |-> ErrNil, val |-> <<>>]

Return(p, op, id, ids, err, keys) ==
    [proc |-> p, via |-> "store", op |-> op, id |-> id, ids |-> ids,
     err |-> err, keys |-> keys, fresh |-> {}, base |-> ErrNil, val |-> <<>>]

\* the return of a call on the cache wrapper / on the KMS wrapper
CacheReturn(p, op, id, ids, err, keys) ==
    [Return(p, op, id, ids, err, keys) EXCEPT !.via = "cache"]

KmsReturn(p, op, id, ids, err, keys) ==
    [Return(p, op, id, ids, err, keys) EXCEPT !.via = "kms"]

\* the cache after cache[keyID] = newKeyCache(keyID, k) for every key of keys
CachePut(c, keys, now) ==
    [x \in KeyIDs |-> IF x \in DOMAIN keys THEN newKeyCache(keys[x], now) ELSE c[x]]

\* sequence of the members of a set of key IDs in ascending order (sort.Strings)
RECURSIVE SortIDs(_)
SortIDs(S) ==
    IF S = {} THEN <<>>
    ELSE LET m == CHOOSE x \in S : \A y \in S : IdRank(x) <= IdRank(y)
         IN <<m>> \o SortIDs(S \ {m})

\* ------------------------------------------- Protector: the wire format
\* A string is a sequence of tokens.  A token is <<"c", x>>, a run of
\* characters that are not base64 text, or <<"gcm", ...>>, the base64 text of
\* one AES-GCM ciphertext.  The prefix "<pii::" is one token.
packPrefix == << <<"c", "<pii::">> >>

Tok(x) == << <<"c", x>> >>

HasPrefix(s, prefix) ==
    /\ Len(s) >= Len(prefix)
    /\ SubSeq(s, 1, Len(prefix)) = prefix

\* an isPackedPII that recognises nothing as packed
isPackedPII_Never(cipher) == FALSE

isPackedPII(cipher) == HasPrefix(cipher, packPrefix) /\ Len(cipher) > Len(packPrefix)

packPII(cipher) == IF isPackedPII(cipher) THEN cipher ELSE packPrefix \o cipher

unpackPII(cipher) ==
    IF ~isPackedPII(cipher) THEN <<>>
    ELSE SubSeq(cipher, Len(packPrefix) + 1, Len(cipher))

\* ------------------------------------------------ aes: AES-256-GCM encrypter
aES265KeySize == 32

\* the nonces getRandomBytes can draw
Nonces == {0, 1}

\* len(key): the keys of Key256GenFn have aES265KeySize bytes, an unset or
\* empty key has none
KeyLen(key) == IF key \in {NoBytes, Null, Absent} THEN 0 ELSE aES265KeySize

\* aes.NewCipher accepts keys of 16, 24 or 32 bytes
NewCipherOK(key) == KeyLen(key) \in {16, 24, 32}

ErrEnryptionFailure == "ErrEnryptionFailure"
ErrDecryptionFailure == "ErrDecryptionFailure"

\* aes256gcm.Encrypt with the nonce drawn: base64(nonce || Seal(plainTxt, aad))
AesEncrypt(namespace, key, plainTxt, nonce) ==
    IF ~NewCipherOK(key)
    THEN [val |-> <<>>, err |-> ErrEnryptionFailure]
    ELSE [val |-> << <<"gcm", nonce, namespace, key, plainTxt>> >>, err |-> ErrNil]

\* aes256gcm.Decrypt: fails on a bad key size, on text that is not base64, and
\* when Open does not authenticate under the key and the namespace
AesDecrypt(namespace, key, cipherTxt) ==
    IF /\ NewCipherOK(key)
       /\ Len(cipherTxt) = 1
       /\ cipherTxt[1][1] = "gcm"
       /\ cipherTxt[1][3] = namespace
       /\ cipherTxt[1][4] = key
    THEN [val |-> cipherTxt[1][5], err |-> ErrNil]
    ELSE [val |-> <<>>, err |-> ErrDecryptionFailure]

\* ------------------------------------------------- Protector: pure functions
ErrEncryptDecryptFailure == "ErrEncryptDecryptFailure"
ErrForgetSubjectFailure == "ErrForgetSubjectFailure"
ErrRecoverSubjectFailure == "ErrRecoverSubjectFailure"
ErrCannotRecoverSubject == "ErrCannotRecoverSubject"
ErrSubjectForgotten == "ErrSubjectForgotten"

\* the callback fn of protector.encrypt on one field of subject id
EncryptFn(keys, id, val, nonce) ==
    IF id \notin DOMAIN keys
    THEN [val |-> <<>>, err |-> ErrSubjectForgotten]
    ELSE IF isPackedPII(val)
    THEN [val |-> val, err |-> ErrNil]
    ELSE LET enc == AesEncrypt(Namespace, keys[id], val, nonce)
         IN IF enc.err # ErrNil THEN enc
            ELSE [val |-> packPII(enc.val), err |-> ErrNil]

\* the callback fn of protector.decrypt on one field of subject id
DecryptFn(keys, id, val, replacement) ==
    IF id \notin DOMAIN keys
    THEN [val |-> replacement, err |-> ErrNil]
    ELSE IF ~isPackedPII(val)
    THEN [val |-> val, err |-> ErrNil]
    ELSE AesDecrypt(Namespace, keys[id], unpackPII(val))

\* piiStruct.replace on a struct with one data field: a zero field is skipped,
\* on an error the field keeps its value
replace(out, val) ==
    IF val = <<>> THEN [val |-> val, err |-> ErrNil]
    ELSE IF out.err # ErrNil THEN [val |-> val, err |-> out.err]
    ELSE out

\* ------------------------------------------------ kms.engine: the data keys
\* staticKMSKeyResolver.KeyOf: one master key for every namespace
KMSKeyOf(namespace, keyID) == "mk"

ErrIncompatibleKeyLength == "incompatible resolved key length"
ErrKMSDecrypt == "ErrKMSDecrypt"

\* the lengths of the key a dry run of the caller's keyGen produces; 0 stands
\* for a nil keyGen
KeyGenLens == {0, 16, 24, 32, 64}

\* GetOrCreateKeys' numberOfBytes for a keyGen that produces keys of the given
\* length
numberOfBytes(keyLen) ==
    IF keyLen = 0 THEN [n |-> 32, err |-> ErrNil]
    ELSE IF keyLen = 16 THEN [n |-> 16, err |-> ErrNil]
    ELSE IF keyLen = 64 THEN [n |-> 64, err |-> ErrNil]
    ELSE [n |-> 0, err |-> ErrIncompatibleKeyLength]

\* a GenerateDataKey whose CiphertextBlob is the plaintext key
GenerateDataKey_Plain(p, keyID, kmsKey, namespace, n) ==
    [Plaintext |-> <<"dk", p, keyID, n>>, CiphertextBlob |-> <<"dk", p, keyID, n>>]

\* kms GenerateDataKey for caller p: a fresh key of n bytes, and that key
\* encrypted under the master key and the encryption context
GenerateDataKey(p, keyID, kmsKey, namespace, n) ==
    [Plaintext |-> <<"dk", p, keyID, n>>,
     CiphertextBlob |-> <<"kms", kmsKey, namespace, <<"dk", p, keyID, n>>>>]

\* engine.decryptDataKey: kms Decrypt under the master key and the context
decryptDataKey(kmsKey, encKey, namespace) ==
    IF /\ Len(encKey) = 4
       /\ encKey[1] = "kms"
       /\ encKey[2] = kmsKey
       /\ encKey[3] = namespace
    THEN [key |-> encKey[4], err |-> ErrNil]
    ELSE [key |-> NoBytes, err |-> ErrKMSDecrypt]

\* the key that the keyGen of caller p's GetOrCreateKeys returns to the store:
\* the caller's own, or through the KMS wrapper the CiphertextBlob of a
\* data key
MissedKey(p, keyID) ==
    IF loc[p].kms = 0 THEN KeyGen(p, keyID)
    ELSE GenerateDataKey(p, keyID, KMSKeyOf(Namespace, keyID), Namespace,
                         loc[p].kms).CiphertextBlob

\* the end of the KMS wrapper's GetOrCreateKeys: the plaintext in newKeys for
\* the key IDs its keyGen was called for, the decryption of the others
KmsKeysOf(p, l, keys) ==
    [x \in DOMAIN keys |->
        IF x \in l.new
        THEN GenerateDataKey(p, x, KMSKeyOf(Namespace, x), Namespace, l.kms).Plaintext
        ELSE decryptDataKey(KMSKeyOf(Namespace, x), keys[x], Namespace).key]

\* the return of the KMS wrapper's GetOrCreateKeys, or of its GetKeys with no
\* newKeys, on the keys its origin returned
KmsKeysReturn(p, op, l, keys) ==
    IF \E x \in DOMAIN keys \ l.new :
          decryptDataKey(KMSKeyOf(Namespace, x), keys[x], Namespace).err # ErrNil
    THEN KmsReturn(p, op, "", l.ids, ErrKMSDecrypt, EmptyMap)
    ELSE KmsReturn(p, op, "", l.ids, ErrNil, KmsKeysOf(p, l, keys))

\* ------------------------------------------------------------- store calls
\* condition of the update expressions of DeleteKey, DisableKey and
\* ReEnableKey: _state <> DELETED, which holds as well when the item or the
\* attribute does not exist
NotDeleted_Always(r) == TRUE

NotDeleted(r) == r.state # StateDeleted

\* a delete that leaves the item in the index
DeleteUpdate_KeepIndex(r, now) ==
    [r EXCEPT !.state = StateDeleted, !.deletedAt = Unix(now)]

\* updateKeyItem with DeleteKey's expression: SET _state, _deletedAt,
\* REMOVE _lsik
DeleteUpdate(r, now) ==
    [r EXCEPT !.state = StateDeleted, !.deletedAt = Unix(now), !.lsik = NoLsi]

\* a disable that stamps _disabledAt every time
DisableUpdate_Restamp(r, now) ==
    [r EXCEPT !.state = StateDisabled,
              !.disabledAt = Unix(now),
              !.lsik = LsiDisabled(Unix(now)),
              !.enabledAt = 0]

\* updateKeyItem with DisableKey's expression
DisableUpdate(r, now) ==
    [r EXCEPT !.state = StateDisabled,
              !.disabledAt = IfNotExists(r.disabledAt, Unix(now)),
              !.lsik = LsiDisabled(Unix(now)),
              !.enabledAt = 0]

\* a re-enable that does not put the key back in the index of ACTIVE keys
ReEnableUpdate_NoIndex(r, id, now) ==
    [r EXCEPT !.state = StateActive,
              !.enabledAt = IfNotExists(r.enabledAt, Unix(now)),
              !.disabledAt = 0]

\* updateKeyItem with ReEnableKey's expression
ReEnableUpdate(r, id, now) ==
    [r EXCEPT !.state = StateActive,
              !.enabledAt = IfNotExists(r.enabledAt, Unix(now)),
              !.lsik = LsiEnabled(id),
              !.disabledAt = 0]

\* the KeyItem createKeys puts for a key that has no item yet
NewKeyItem(id, k, now) ==
    [state |-> StateActive, kid |-> TRUE, key |-> k, createdAt |-> Unix(now),
     enabledAt |-> Unix(now), disabledAt |-> 0, deletedAt |-> 0,
     lsik |-> LsiEnabled(id)]

\* a query on the key IDs alone, whatever the state of the key
GetKeysOf_AnyState(it, ids) ==
    [x \in {y \in ids : it[y].kid} |-> KeyBytes(it[x])]

\* the query of GetKeys: _lsik BETWEEN enabled@min AND enabled@max,
\* filter _kid IN keyIDs, projection _kid, _key
GetKeysOf(it, ids) ==
    IF ids = {} THEN EmptyMap
    ELSE LET s == SortIDs(ids)
             lo == LsiEnabled(s[1])
             hi == LsiEnabled(s[Len(s)])
             hit == {x \in AllIDs : /\ it[x].lsik # NoLsi
                                    /\ LsiLE(lo, it[x].lsik)
                                    /\ LsiLE(it[x].lsik, hi)
                                    /\ it[x].kid
                                    /\ x \in ids}
         IN [x \in hit |-> KeyBytes(it[x])]

\* the query of DeleteUnusedKeys: _lsik <= disabled@<now - grace period>,
\* projection _kid; the items come in index order
UnusedOf(it, now) ==
    LET cut == LsiDisabled(Unix(now - GracePeriod))
        hit == {x \in AllIDs : it[x].lsik # NoLsi /\ LsiLE(it[x].lsik, cut)}
        Before(x, y) == \/ (it[x].lsik # it[y].lsik /\ LsiLE(it[x].lsik, it[y].lsik))
                        \/ (it[x].lsik = it[y].lsik /\ IdRank(x) <= IdRank(y))
        ord == CHOOSE q \in [1..Cardinality(hit) -> hit] :
                   /\ \A i, j \in 1..Cardinality(hit) : i < j => (q[i] # q[j] /\ Before(q[i], q[j]))
    IN [i \in 1..Cardinality(hit) |-> IF it[ord[i]].kid THEN ord[i] ELSE ""]

\* Engine.DeleteKey on the table: a failed condition is not an error
DeleteKeyItem(it, id, now) ==
    IF NotDeleted(it[id])
    THEN [it EXCEPT ![id] = DeleteUpdate(it[id], now)]
    ELSE it

\* the key map GetOrCreateKeys returns: the keys found, and for every missed
\* key that is not disabledOrDeleted the freshNew value or else its own
GocResult(l) ==
    LET made == {x \in DOMAIN l.gen \cup DOMAIN l.fresh : x \notin l.dod}
    IN [x \in DOMAIN l.keys \cup made |->
           IF x \in made
           THEN (IF x \in DOMAIN l.fresh THEN l.fresh[x] ELSE l.gen[x])
           ELSE l.keys[x]]

\* the Protector's default configuration (GracefulMode: true); history: the
\* subjects whose Forget has returned nil with no Recover returning nil since;
\* the caller's struct: its subject ID and the value of its data field, and as
\* history the plaintext the caller put in it (orig) and whether an Encrypt of
\* it, called with that plaintext in the field, has returned nil with no
\* Decrypt of it and no Forget of its subject called since (enc), and whether
\* another Encrypt of it has returned nil after that one (again)
NoProt ==
    [graceful |-> TRUE, forgot |-> {},
     rec |-> [id |-> "", orig |-> <<>>, val |-> <<>>, enc |-> FALSE, again |-> FALSE]]

\* ------------------------------------------------------------------- Init
\* ---------------------------------------------------------------- tokens
MaxTokens == 3
TokenValues == {"v", "w"}

\* the table without a token item, no uuid drawn; last is history: the token
\* that Tokenize returned for a value since the last DeleteToken, or 0; the
\* two maps of the tokenCache of memory.TokenEngine, empty
NoTokens ==
    [table |-> {}, next |-> 0, last |-> [v \in TokenValues |-> 0],
     tokenToValue |-> <<>>, valueToToken |-> <<>>]

\* TokenItem
TokenItem(token, value) == [tkn |-> token, tknv |-> value]

\* ------------------------------------------------------------ wire format
\* a caller that formats nothing; out is what parseWireFormat returned
NoWire ==
    [version |-> 0, subjectID |-> <<>>, cipher |-> <<>>, formatted |-> FALSE,
     str |-> <<>>,
     out |-> [done |-> FALSE, version |-> 0, subjectID |-> <<>>, cipherText |-> <<>>,
              err |-> ErrNil]]

\* ---------------------------------------------------------------- factory
MaxBuilt == 2
IdleDur == 1

\* NewFactory: an empty registry. reg maps a namespace to its traceable, or
\* to 0; lastOpsAt is the field of every traceable built; held is the
\* Protector each caller got from Instance and clearNs the namespace of the
\* FactoryClearFunc it got with it; built counts the newProtector calls;
\* final is history: the clear the monitor made when it returned
NoFact ==
    [reg |-> [n \in {"n1", "n2"} |-> 0],
     lastOpsAt |-> [t \in 1..MaxBuilt |-> 0],
     held |-> [p \in Procs |-> 0],
     clearNs |-> [p \in Procs |-> ""],
     built |-> 0,
     ctx |-> "live",
     monitor |-> "off",
     final |-> [done |-> FALSE, ctx |-> "", force |-> FALSE, had |-> {}, left |-> {}]]

Init ==
    /\ items = [x \in AllIDs |-> NoRecord]
    /\ registry = {}
    /\ clock = 0
    /\ cache = [x \in KeyIDs |-> NoEntry]
    /\ deleted = {}
    /\ pc = [p \in Procs |-> "idle"]
    /\ loc = [p \in Procs |-> NoLoc]
    /\ ret = NoRet
    /\ prot = NoProt
    /\ tokens = NoTokens
    /\ fact = NoFact
    /\ wire = NoWire

\* ---------------------------------------------------------------- actions
Tick ==
    /\ clock < MaxClock
    /\ clock' = clock + 1
    /\ ret' = NoRet
    /\ UNCHANGED <<wire, tokens, fact, prot, items, registry, cache, pc, loc, deleted>>

GetKeys(p, ids) ==
    /\ pc[p] = "idle"
    /\ ret' = Return(p, "get", "", ids, ErrNil, GetKeysOf(items, ids))
    /\ UNCHANGED <<wire, tokens, fact, prot, items, registry, clock, cache, pc, loc, deleted>>

\* a DeleteKey that reports the failure of its condition
DeleteKey_Strict(p, id) ==
    /\ pc[p] = "idle"
    /\ items' = DeleteKeyItem(items, id, clock)
    /\ ret' = Return(p, "delete", id, {},
                     IF NotDeleted(items[id]) THEN ErrNil ELSE ErrKeyNotFound, EmptyMap)
    /\ deleted' = deleted \cup {id}
    /\ UNCHANGED <<wire, tokens, fact, prot, registry, clock, cache, pc, loc>>

DeleteKey(p, id) ==
    /\ pc[p] = "idle"
    /\ items' = DeleteKeyItem(items, id, clock)
    /\ ret' = Return(p, "delete", id, {}, ErrNil, EmptyMap)
    /\ deleted' = deleted \cup {id}
    /\ UNCHANGED <<wire, tokens, fact, prot, registry, clock, cache, pc, loc>>

DisableKey(p, id) ==
    /\ pc[p] = "idle"
    /\ IF NotDeleted(items[id])
       THEN /\ items' = [items EXCEPT ![id] = DisableUpdate(items[id], clock)]
            /\ ret' = Return(p, "disable", id, {}, ErrNil, EmptyMap)
       ELSE /\ items' = items
            /\ ret' = Return(p, "disable", id, {}, ErrKeyNotFound, EmptyMap)
    /\ UNCHANGED <<wire, tokens, fact, prot, registry, clock, cache, pc, loc, deleted>>

ReEnableKey(p, id) ==
    /\ pc[p] = "idle"
    /\ IF NotDeleted(items[id])
       THEN /\ items' = [items EXCEPT ![id] = ReEnableUpdate(items[id], id, clock)]
            /\ ret' = Return(p, "reenable", id, {}, ErrNil, EmptyMap)
       ELSE /\ items' = items
            /\ ret' = Return(p, "reenable", id, {}, ErrKeyNotFound, EmptyMap)
    /\ UNCHANGED <<wire, tokens, fact, prot, registry, clock, cache, pc, loc, deleted>>

\* createKeys' loop: go on with the next missed key, or return; the cache
\* wrapper caches the keys its origin returns and returns them, and
\* protector.encrypt goes on with the keys
GocContinue(p, l) ==
    IF l.todo = <<>>
    THEN /\ pc' = [pc EXCEPT ![p] = IF l.prot THEN "p_encrypt" ELSE "idle"]
         /\ loc' = [loc EXCEPT ![p] =
                        IF l.prot
                        THEN [NoLoc EXCEPT !.ids = l.ids, !.keys = GocResult(l),
                                           !.prot = TRUE, !.fg = l.fg]
                        ELSE NoLoc]
         /\ ret' = IF l.kms # 0
                   THEN KmsKeysReturn(p, "goc", l, GocResult(l))
                   ELSE [Return(p, "goc", "", l.ids, ErrNil, GocResult(l))
                           EXCEPT !.fresh = DOMAIN l.fresh,
                                  !.via = IF l.wrap THEN "cache" ELSE "store"]
         /\ cache' = IF l.wrap THEN CachePut(cache, GocResult(l), clock) ELSE cache
    ELSE /\ pc' = [pc EXCEPT ![p] = "goc_put"]
         /\ loc' = [loc EXCEPT ![p] = l]
         /\ ret' = NoRet
         /\ cache' = cache

\* GetOrCreateKeys up to the return of its GetKeys query
GetOrCreateKeys(p, ids) ==
    /\ pc[p] = "idle"
    /\ LET found == GetKeysOf(items, ids)
           l == [NoLoc EXCEPT !.ids = ids, !.keys = found,
                              !.todo = SortIDs(ids \ DOMAIN found),
                              !.del = ids \cap deleted]
       IN IF DOMAIN found = {}
          THEN /\ pc' = [pc EXCEPT ![p] = "goc_ns"]
               /\ loc' = [loc EXCEPT ![p] = l]
               /\ ret' = NoRet
               /\ cache' = cache
          ELSE GocContinue(p, l)
    /\ UNCHANGED <<wire, tokens, fact, prot, items, registry, clock, deleted>>

\* GetOrCreateKeys' addNamespace: conditional put of the namespace item
addNamespace(p) ==
    /\ pc[p] = "goc_ns"
    /\ registry' = registry \cup {Namespace}
    /\ GocContinue(p, loc[p])
    /\ UNCHANGED <<wire, tokens, fact, prot, items, clock, deleted>>

\* a PutItem without its condition: it replaces the item of the key
createKeys_Overwrite(p) ==
    /\ pc[p] = "goc_put"
    /\ LET id == Head(loc[p].todo)
       IN /\ items' = [items EXCEPT ![id] = NewKeyItem(id, MissedKey(p, id), clock)]
          /\ GocContinue(p, [loc[p] EXCEPT !.todo = Tail(@),
                                           !.gen = (id :> MissedKey(p, id)) @@ @])
    /\ UNCHANGED <<wire, tokens, fact, prot, registry, clock, deleted>>

\* createKeys' PutItem of the next missed key, condition: no such item
createKeys(p) ==
    /\ pc[p] = "goc_put"
    /\ LET id == Head(loc[p].todo)
       IN IF items[id].state = NoItem
          THEN /\ items' = [items EXCEPT ![id] = NewKeyItem(id, MissedKey(p, id), clock)]
               /\ GocContinue(p, [loc[p] EXCEPT !.todo = Tail(@),
                                                !.gen = (id :> MissedKey(p, id)) @@ @])
          ELSE /\ items' = items
               /\ pc' = [pc EXCEPT ![p] = "goc_exist"]
               /\ ret' = NoRet
               /\ UNCHANGED <<loc, cache>>
    /\ UNCHANGED <<wire, tokens, fact, prot, registry, clock, deleted>>

\* createKeys' handleExist: update that reads _key back, condition
\* _state = ACTIVE
handleExist(p) ==
    /\ pc[p] = "goc_exist"
    /\ LET id == Head(loc[p].todo)
           upd == [items[id] EXCEPT !.key = IF @ = Absent THEN Null ELSE @]
       IN IF items[id].state = StateActive
          THEN /\ items' = [items EXCEPT ![id] = upd]
               /\ GocContinue(p, [loc[p] EXCEPT !.todo = Tail(@),
                                                !.fresh = (id :> KeyBytes(upd)) @@ @])
          ELSE /\ items' = items
               /\ GocContinue(p, [loc[p] EXCEPT !.todo = Tail(@),
                                                !.dod = @ \cup {id}])
    /\ UNCHANGED <<wire, tokens, fact, prot, registry, clock, deleted>>

\* DeleteUnusedKeys' loop: go on with the next item, or return
SweepContinue(p, scan) ==
    IF scan = <<>>
    THEN /\ pc' = [pc EXCEPT ![p] = "idle"]
         /\ loc' = [loc EXCEPT ![p] = NoLoc]
         /\ ret' = Return(p, "sweep", "", {}, ErrNil, EmptyMap)
    ELSE /\ pc' = [pc EXCEPT ![p] = "sweep_del"]
         /\ loc' = [loc EXCEPT ![p] = [NoLoc EXCEPT !.scan = scan]]
         /\ ret' = NoRet

\* DeleteUnusedKeys up to the return of its query
DeleteUnusedKeys(p) ==
    /\ pc[p] = "idle"
    /\ SweepContinue(p, UnusedOf(items, clock))
    /\ UNCHANGED <<wire, tokens, fact, prot, items, registry, clock, cache, deleted>>

\* DeleteUnusedKeys' DeleteKey of the next item
SweepDelete(p) ==
    /\ pc[p] = "sweep_del"
    /\ items' = DeleteKeyItem(items, Head(loc[p].scan), clock)
    /\ SweepContinue(p, Tail(loc[p].scan))
    /\ UNCHANGED <<wire, tokens, fact, prot, registry, clock, cache, deleted>>

\* ---------------------------------------- memory.engine without an origin
\* engine.GetKeys: the cached keys that are ACTIVE
MemGetKeysOf(c, ids) ==
    [x \in {y \in ids : c[y].in /\ c[y].state = StateActive} |-> c[x].key]

MemGetKeys(p, ids) ==
    /\ pc[p] = "idle"
    /\ ret' = Return(p, "get", "", ids, ErrNil, MemGetKeysOf(cache, ids))
    /\ UNCHANGED <<wire, tokens, fact, prot, items, registry, clock, cache, pc, loc, deleted>>

\* engine.GetOrCreateKeys up to the return of its GetKeys call, which
\* releases the mutex
MemGetOrCreateKeys(p, ids) ==
    /\ pc[p] = "idle"
    /\ pc' = [pc EXCEPT ![p] = "mem_new"]
    /\ loc' = [loc EXCEPT ![p] = [NoLoc EXCEPT !.ids = ids,
                                               !.keys = MemGetKeysOf(cache, ids),
                                               !.del = ids \cap deleted]]
    /\ ret' = NoRet
    /\ UNCHANGED <<wire, tokens, fact, prot, items, registry, clock, cache, deleted>>

\* engine.GetOrCreateKeys' loop under the mutex: a new key for every key ID
\* that is neither among the keys nor in the cache
MemNewKeys(p) ==
    /\ pc[p] = "mem_new"
    /\ LET l == loc[p]
           new == {x \in l.ids : x \notin DOMAIN l.keys /\ ~cache[x].in}
           keys == [x \in DOMAIN l.keys \cup new |->
                       IF x \in new THEN KeyGen(p, x) ELSE l.keys[x]]
       IN /\ cache' = [x \in KeyIDs |->
                          IF x \in new THEN newKeyCache(KeyGen(p, x), clock)
                          ELSE cache[x]]
          /\ ret' = Return(p, "goc", "", l.ids, ErrNil, keys)
    /\ pc' = [pc EXCEPT ![p] = "idle"]
    /\ loc' = [loc EXCEPT ![p] = NoLoc]
    /\ UNCHANGED <<wire, tokens, fact, prot, items, registry, clock, deleted>>

MemDisableKey(p, id) ==
    /\ pc[p] = "idle"
    /\ IF cache[id].in /\ cache[id].state # StateDeleted
       THEN /\ cache' = [cache EXCEPT ![id].state = StateDisabled]
            /\ ret' = Return(p, "disable", id, {}, ErrNil, EmptyMap)
       ELSE /\ cache' = cache
            /\ ret' = Return(p, "disable", id, {}, ErrKeyNotFound, EmptyMap)
    /\ UNCHANGED <<wire, tokens, fact, prot, items, registry, clock, pc, loc, deleted>>

MemRenableKey(p, id) ==
    /\ pc[p] = "idle"
    /\ IF cache[id].in /\ cache[id].state # StateDeleted
       THEN /\ cache' = [cache EXCEPT ![id].state = StateActive]
            /\ ret' = Return(p, "reenable", id, {}, ErrNil, EmptyMap)
       ELSE /\ cache' = cache
            /\ ret' = Return(p, "reenable", id, {}, ErrKeyNotFound, EmptyMap)
    /\ UNCHANGED <<wire, tokens, fact, prot, items, registry, clock, pc, loc, deleted>>

MemDeleteKey(p, id) ==
    /\ pc[p] = "idle"
    /\ cache' = IF cache[id].in
                THEN [cache EXCEPT ![id].key = NoBytes, ![id].state = StateDeleted]
                ELSE cache
    /\ ret' = Return(p, "delete", id, {}, ErrNil, EmptyMap)
    /\ deleted' = deleted \cup {id}
    /\ UNCHANGED <<wire, tokens, fact, prot, items, registry, clock, pc, loc>>

\* callers of the in-memory engine used as a store
NextMem ==
    \/ \E p \in Procs, ids \in SUBSET KeyIDs : MemGetKeys(p, ids)
    \/ \E p \in Procs, ids \in SUBSET KeyIDs : MemGetOrCreateKeys(p, ids)
    \/ \E p \in Procs : MemNewKeys(p)
    \/ \E p \in Procs, id \in KeyIDs : MemDisableKey(p, id)
    \/ \E p \in Procs, id \in KeyIDs : MemRenableKey(p, id)
    \/ \E p \in Procs, id \in KeyIDs : MemDeleteKey(p, id)

SpecMem == Init /\ [][NextMem]_vars

\* ------------------- memory.engine as a cache wrapper on the DynamoDB store
\* the wrapper's mutex is free: no GetOrCreateKeys of the wrapper is in progress
MuFree == \A q \in Procs : ~loc[q].wrap

\* a GetKeys that asks the origin for every key that is not cached as ACTIVE
CacheGetKeys_NotActive(p, ids) ==
    /\ pc[p] = "idle"
    /\ MuFree
    /\ LET foundKeys == MemGetKeysOf(cache, ids)
           missedKeys == {x \in ids : ~(cache[x].in /\ cache[x].state = StateActive)}
           keys == GetKeysOf(items, missedKeys)
       IN /\ cache' = CachePut(cache, keys, clock)
          /\ ret' = CacheReturn(p, "get", "", ids, ErrNil, keys @@ foundKeys)
    /\ UNCHANGED <<wire, tokens, fact, prot, items, registry, clock, pc, loc, deleted>>

\* engine.GetKeys: the cached ACTIVE keys, and from the origin the keys that
\* have no cache entry, which it caches
CacheGetKeys(p, ids) ==
    /\ pc[p] = "idle"
    /\ MuFree
    /\ LET foundKeys == MemGetKeysOf(cache, ids)
           missedKeys == {x \in ids : ~cache[x].in}
           keys == GetKeysOf(items, missedKeys)
       IN /\ cache' = CachePut(cache, keys, clock)
          /\ ret' = CacheReturn(p, "get", "", ids, ErrNil, keys @@ foundKeys)
    /\ UNCHANGED <<wire, tokens, fact, prot, items, registry, clock, pc, loc, deleted>>

\* engine.GetOrCreateKeys: under the mutex, the origin's GetOrCreateKeys, up
\* to the return of its GetKeys query
CacheGetOrCreateKeys(p, ids) ==
    /\ pc[p] = "idle"
    /\ MuFree
    /\ LET found == GetKeysOf(items, ids)
           l == [NoLoc EXCEPT !.ids = ids, !.keys = found,
                              !.todo = SortIDs(ids \ DOMAIN found),
                              !.wrap = TRUE,
                              !.del = ids \cap deleted]
       IN IF DOMAIN found = {}
          THEN /\ pc' = [pc EXCEPT ![p] = "goc_ns"]
               /\ loc' = [loc EXCEPT ![p] = l]
               /\ ret' = NoRet
               /\ cache' = cache
          ELSE GocContinue(p, l)
    /\ UNCHANGED <<wire, tokens, fact, prot, items, registry, clock, deleted>>

\* a DisableKey that drops the cache entry of a key its origin does not find
CacheDisableKey_Evict(p, id) ==
    /\ pc[p] = "idle"
    /\ IF NotDeleted(items[id])
       THEN /\ items' = [items EXCEPT ![id] = DisableUpdate(items[id], clock)]
            /\ pc' = [pc EXCEPT ![p] = "w_disable"]
            /\ loc' = [loc EXCEPT ![p] = [NoLoc EXCEPT !.todo = <<id>>]]
            /\ ret' = NoRet
            /\ cache' = cache
       ELSE /\ items' = items
            /\ ret' = CacheReturn(p, "disable", id, {}, ErrKeyNotFound, EmptyMap)
            /\ cache' = [cache EXCEPT ![id] = NoEntry]
            /\ UNCHANGED <<pc, loc>>
    /\ UNCHANGED <<wire, tokens, fact, prot, registry, clock, deleted>>

\* engine.DisableKey: the origin's DisableKey, whose error it returns
CacheDisableKey(p, id) ==
    /\ pc[p] = "idle"
    /\ IF NotDeleted(items[id])
       THEN /\ items' = [items EXCEPT ![id] = DisableUpdate(items[id], clock)]
            /\ pc' = [pc EXCEPT ![p] = "w_disable"]
            /\ loc' = [loc EXCEPT ![p] = [NoLoc EXCEPT !.todo = <<id>>]]
            /\ ret' = NoRet
       ELSE /\ items' = items
            /\ ret' = CacheReturn(p, "disable", id, {}, ErrKeyNotFound, EmptyMap)
            /\ UNCHANGED <<pc, loc>>
    /\ UNCHANGED <<wire, tokens, fact, prot, registry, clock, cache, deleted>>

\* engine.DisableKey after its origin returned nil: the cache entry
CacheDisableEntry(p) ==
    /\ pc[p] = "w_disable"
    /\ MuFree
    /\ LET id == Head(loc[p].todo)
       IN IF cache[id].in /\ cache[id].state # StateDeleted
          THEN /\ cache' = [cache EXCEPT ![id].state = StateDisabled]
               /\ ret' = CacheReturn(p, "disable", id, {}, ErrNil, EmptyMap)
          ELSE /\ cache' = cache
               /\ ret' = CacheReturn(p, "disable", id, {}, ErrKeyNotFound, EmptyMap)
    /\ pc' = [pc EXCEPT ![p] = "idle"]
    /\ loc' = [loc EXCEPT ![p] = NoLoc]
    /\ UNCHANGED <<wire, tokens, fact, prot, items, registry, clock, deleted>>

\* a RenableKey that drops the error of its origin and goes on to the cache
CacheRenableKey_DropErr(p, id) ==
    /\ pc[p] = "idle"
    /\ items' = IF NotDeleted(items[id])
                THEN [items EXCEPT ![id] = ReEnableUpdate(items[id], id, clock)]
                ELSE items
    /\ pc' = [pc EXCEPT ![p] = "w_renable"]
    /\ loc' = [loc EXCEPT ![p] = [NoLoc EXCEPT !.todo = <<id>>]]
    /\ ret' = NoRet
    /\ UNCHANGED <<wire, tokens, fact, prot, registry, clock, cache, deleted>>

\* engine.RenableKey: the origin's ReEnableKey, whose error it returns
CacheRenableKey(p, id) ==
    /\ pc[p] = "idle"
    /\ IF NotDeleted(items[id])
       THEN /\ items' = [items EXCEPT ![id] = ReEnableUpdate(items[id], id, clock)]
            /\ pc' = [pc EXCEPT ![p] = "w_renable"]
            /\ loc' = [loc EXCEPT ![p] = [NoLoc EXCEPT !.todo = <<id>>]]
            /\ ret' = NoRet
       ELSE /\ items' = items
            /\ ret' = CacheReturn(p, "reenable", id, {}, ErrKeyNotFound, EmptyMap)
            /\ UNCHANGED <<pc, loc>>
    /\ UNCHANGED <<wire, tokens, fact, prot, registry, clock, cache, deleted>>

\* engine.RenableKey after its origin returned nil: the cache entry
CacheRenableEntry(p) ==
    /\ pc[p] = "w_renable"
    /\ MuFree
    /\ LET id == Head(loc[p].todo)
       IN IF cache[id].in /\ cache[id].state # StateDeleted
          THEN /\ cache' = [cache EXCEPT ![id].state = StateActive]
               /\ ret' = CacheReturn(p, "reenable", id, {}, ErrNil, EmptyMap)
          ELSE /\ cache' = cache
               /\ ret' = CacheReturn(p, "reenable", id, {}, ErrKeyNotFound, EmptyMap)
    /\ pc' = [pc EXCEPT ![p] = "idle"]
    /\ loc' = [loc EXCEPT ![p] = NoLoc]
    /\ UNCHANGED <<wire, tokens, fact, prot, items, registry, clock, deleted>>

\* engine.DeleteKey: the origin's DeleteKey, which returns nil
CacheDeleteKey(p, id) ==
    /\ pc[p] = "idle"
    /\ items' = DeleteKeyItem(items, id, clock)
    /\ pc' = [pc EXCEPT ![p] = "w_delete"]
    /\ loc' = [loc EXCEPT ![p] = [NoLoc EXCEPT !.todo = <<id>>]]
    /\ ret' = NoRet
    /\ UNCHANGED <<wire, tokens, fact, prot, registry, clock, cache, deleted>>

\* engine.DeleteKey after its origin returned nil: the cache entry
CacheDeleteEntry(p) ==
    /\ pc[p] = "w_delete"
    /\ MuFree
    /\ LET id == Head(loc[p].todo)
       IN /\ cache' = IF cache[id].in
                      THEN [cache EXCEPT ![id].key = NoBytes,
                                         ![id].state = StateDeleted]
                      ELSE cache
          /\ ret' = CacheReturn(p, "delete", id, {}, ErrNil, EmptyMap)
          /\ deleted' = deleted \cup {id}
    /\ pc' = [pc EXCEPT ![p] = "idle"]
    /\ loc' = [loc EXCEPT ![p] = NoLoc]
    /\ UNCHANGED <<wire, tokens, fact, prot, items, registry, clock>>

\* engine.ClearCache: drops the entries older than the TTL, or all of them
ClearCache(p, force) ==
    /\ pc[p] = "idle"
    /\ MuFree
    /\ cache' = [x \in KeyIDs |->
                    IF cache[x].in /\ (force \/ cache[x].at + CacheTTL < Unix(clock))
                    THEN NoEntry
                    ELSE cache[x]]
    /\ ret' = CacheReturn(p, "clear", "", {}, ErrNil, EmptyMap)
    /\ UNCHANGED <<wire, tokens, fact, prot, items, registry, clock, pc, loc, deleted>>

\* ------------------------------------- kms.engine: the lifecycle calls
\* engine.DisableKey: the origin's DisableKey
KmsDisableKey(p, id) ==
    /\ pc[p] = "idle"
    /\ IF NotDeleted(items[id])
       THEN /\ items' = [items EXCEPT ![id] = DisableUpdate(items[id], clock)]
            /\ ret' = KmsReturn(p, "disable", id, {}, ErrNil, EmptyMap)
       ELSE /\ items' = items
            /\ ret' = KmsReturn(p, "disable", id, {}, ErrKeyNotFound, EmptyMap)
    /\ UNCHANGED <<wire, tokens, fact, prot, registry, clock, cache, pc, loc, deleted>>

\* engine.ReEnableKey: the origin's ReEnableKey
KmsReEnableKey(p, id) ==
    /\ pc[p] = "idle"
    /\ IF NotDeleted(items[id])
       THEN /\ items' = [items EXCEPT ![id] = ReEnableUpdate(items[id], id, clock)]
            /\ ret' = KmsReturn(p, "reenable", id, {}, ErrNil, EmptyMap)
       ELSE /\ items' = items
            /\ ret' = KmsReturn(p, "reenable", id, {}, ErrKeyNotFound, EmptyMap)
    /\ UNCHANGED <<wire, tokens, fact, prot, registry, clock, cache, pc, loc, deleted>>

\* callers of the cache wrapper and of the KMS wrapper on the key of one
\* subject, next to callers of the store and the sweep
NextWrap ==
    \/ Tick
    \/ \E p \in Procs : CacheGetKeys(p, {"a"})
    \/ \E p \in Procs : CacheGetOrCreateKeys(p, {"a"})
    \/ \E p \in Procs : addNamespace(p)
    \/ \E p \in Procs : createKeys(p)
    \/ \E p \in Procs : handleExist(p)
    \/ \E p \in Procs : CacheDisableKey(p, "a")
    \/ \E p \in Procs : CacheDisableEntry(p)
    \/ \E p \in Procs : CacheRenableKey(p, "a")
    \/ \E p \in Procs : CacheRenableEntry(p)
    \/ \E p \in Procs : CacheDeleteKey(p, "a")
    \/ \E p \in Procs : CacheDeleteEntry(p)
    \/ \E p \in Procs, force \in BOOLEAN : ClearCache(p, force)
    \/ \E p \in Procs : KmsDisableKey(p, "a")
    \/ \E p \in Procs : KmsReEnableKey(p, "a")
    \/ \E p \in Procs : DisableKey(p, "a")
    \/ \E p \in Procs : ReEnableKey(p, "a")
    \/ \E p \in Procs : DeleteKey(p, "a")
    \/ \E p \in Procs : DeleteUnusedKeys(p)
    \/ \E p \in Procs : SweepDelete(p)

SpecWrap == Init /\ [][NextWrap]_vars

\* two callers on the key of one subject
Next ==
    \/ Tick
    \/ \E p \in Procs, ids \in SUBSET {"a"} : GetKeys(p, ids)
    \/ \E p \in Procs, ids \in SUBSET {"a"} : GetOrCreateKeys(p, ids)
    \/ \E p \in Procs : addNamespace(p)
    \/ \E p \in Procs : createKeys(p)
    \/ \E p \in Procs : handleExist(p)
    \/ \E p \in Procs : DisableKey(p, "a")
    \/ \E p \in Procs : ReEnableKey(p, "a")
    \/ \E p \in Procs : DeleteKey(p, "a")
    \/ \E p \in Procs : DeleteUnusedKeys(p)
    \/ \E p \in Procs : SweepDelete(p)

Spec == Init /\ [][Next]_vars

\* callers of the key map operations and of the lifecycle operations, on the
\* keys of two subjects
NextKeys ==
    \/ \E p \in Procs, ids \in SUBSET KeyIDs : GetKeys(p, ids)
    \/ \E p \in Procs, ids \in SUBSET KeyIDs : GetOrCreateKeys(p, ids)
    \/ \E p \in Procs : addNamespace(p)
    \/ \E p \in Procs : createKeys(p)
    \/ \E p \in Procs : handleExist(p)
    \/ \E p \in Procs, id \in KeyIDs : DisableKey(p, id)
    \/ \E p \in Procs, id \in KeyIDs : ReEnableKey(p, id)
    \/ \E p \in Procs, id \in KeyIDs : DeleteKey(p, id)

SpecKeys == Init /\ [][NextKeys]_vars

\* callers that only run GetOrCreateKeys, on the keys of two subjects
NextGoc ==
    \/ \E p \in Procs, ids \in SUBSET KeyIDs : GetOrCreateKeys(p, ids)
    \/ \E p \in Procs : addNamespace(p)
    \/ \E p \in Procs : createKeys(p)
    \/ \E p \in Procs : handleExist(p)

SpecGoc == Init /\ [][NextGoc]_vars

\* ------------------------------- Protector on a cache wrapper of the store
\* the plaintexts a caller puts in the data field of its struct
PlainVals == {<<>>, Tok("x"), packPrefix, packPrefix \o Tok("x")}

\* the replace option of the data field's tag, empty when not configured
Replacements == {<<>>, Tok("r")}

ErrReEnableKeyFailure == "ErrReEnableKeyFailure"

\* the return of a call on the Protector
ProtReturn(p, op, id, err, base, val) ==
    [NoRet EXCEPT !.proc = p, !.via = "protector", !.op = op, !.id = id,
                  !.err = err, !.base = base, !.val = val]

\* no Encrypt is at work on the caller's struct
StructFree == \A q \in Procs : ~loc[q].prot

\* NewProtector with the option GracefulMode set or cleared
InitProt ==
    /\ items = [x \in AllIDs |-> NoRecord]
    /\ registry = {}
    /\ clock = 0
    /\ cache = [x \in KeyIDs |-> NoEntry]
    /\ deleted = {}
    /\ pc = [p \in Procs |-> "idle"]
    /\ loc = [p \in Procs |-> NoLoc]
    /\ ret = NoRet
    /\ \E g \in BOOLEAN : prot = [NoProt EXCEPT !.graceful = g]
    /\ tokens = NoTokens
    /\ fact = NoFact
    /\ wire = NoWire

\* the caller fills a struct of subject id with the plaintext v
NewStruct(id, v) ==
    /\ StructFree
    /\ prot' = [prot EXCEPT !.rec = [id |-> id, orig |-> v, val |-> v, enc |-> FALSE,
                               again |-> FALSE]]
    /\ ret' = NoRet
    /\ UNCHANGED <<wire, tokens, fact, items, registry, clock, cache, pc, loc, deleted>>

\* protector.encrypt up to the return of the GetKeys query of the origin's
\* GetOrCreateKeys, called by the cache wrapper under its mutex
Encrypt(p) ==
    /\ pc[p] = "idle"
    /\ MuFree
    /\ StructFree
    /\ prot.rec.id # ""
    /\ LET ids == {prot.rec.id}
           found == GetKeysOf(items, ids)
           l == [NoLoc EXCEPT !.ids = ids, !.keys = found,
                              !.todo = SortIDs(ids \ DOMAIN found),
                              !.wrap = TRUE,
                              !.del = ids \cap deleted,
                              !.prot = TRUE,
                              !.fg = prot.forgot]
       IN IF DOMAIN found = {}
          THEN /\ pc' = [pc EXCEPT ![p] = "goc_ns"]
               /\ loc' = [loc EXCEPT ![p] = l]
               /\ ret' = NoRet
               /\ cache' = cache
          ELSE GocContinue(p, l)
    /\ UNCHANGED <<wire, tokens, fact, prot, items, registry, clock, deleted>>

\* protector.encrypt after GetOrCreateKeys returned: replace with the
\* callback, the encrypter drawing the given nonce
EncryptApply(p, nonce) ==
    /\ pc[p] = "p_encrypt"
    /\ LET id == prot.rec.id
           val == prot.rec.val
           out == replace(EncryptFn(loc[p].keys, id, val, nonce), val)
       IN /\ prot' = [prot EXCEPT !.rec.val = out.val,
                                   !.rec.enc = @ \/ (out.err = ErrNil /\ val = prot.rec.orig),
                                   !.rec.again = @ \/ (out.err = ErrNil /\ prot.rec.enc)]
          /\ ret' = ProtReturn(p, "encrypt", id,
                               IF out.err # ErrNil THEN ErrEncryptDecryptFailure
                               ELSE ErrNil,
                               out.err, out.val)
    /\ pc' = [pc EXCEPT ![p] = "idle"]
    /\ loc' = [loc EXCEPT ![p] = NoLoc]
    /\ UNCHANGED <<wire, tokens, fact, items, registry, clock, cache, deleted>>

\* protector.decrypt: the cache wrapper's GetKeys, then replace with the
\* callback on a struct whose tag has the given replace option
Decrypt(p, replacement) ==
    /\ pc[p] = "idle"
    /\ MuFree
    /\ StructFree
    /\ prot.rec.id # ""
    /\ LET id == prot.rec.id
           val == prot.rec.val
           foundKeys == MemGetKeysOf(cache, {id})
           missedKeys == {x \in {id} : ~cache[x].in}
           keys == GetKeysOf(items, missedKeys)
           out == replace(DecryptFn(keys @@ foundKeys, id, val, replacement), val)
       IN /\ cache' = CachePut(cache, keys, clock)
          /\ prot' = [prot EXCEPT !.rec.val = out.val,
                                   !.rec.enc = FALSE, !.rec.again = FALSE]
          /\ ret' = ProtReturn(p, "decrypt", id,
                               IF out.err # ErrNil THEN ErrEncryptDecryptFailure
                               ELSE ErrNil,
                               out.err, out.val)
    /\ UNCHANGED <<wire, tokens, fact, items, registry, clock, pc, loc, deleted>>

\* protector.Forget up to the return of the origin's DisableKey (GracefulMode)
\* or DeleteKey, which the cache wrapper calls first
Forget(p, id) ==
    /\ pc[p] = "idle"
    /\ prot' = IF prot.rec.id = id THEN [prot EXCEPT !.rec.enc = FALSE, !.rec.again = FALSE] ELSE prot
    /\ IF prot.graceful /\ ~NotDeleted(items[id])
       THEN /\ ret' = ProtReturn(p, "forget", id, ErrForgetSubjectFailure,
                                 ErrKeyNotFound, <<>>)
            /\ UNCHANGED <<items, pc, loc>>
       ELSE /\ items' = IF prot.graceful
                        THEN [items EXCEPT ![id] = DisableUpdate(items[id], clock)]
                        ELSE DeleteKeyItem(items, id, clock)
            /\ pc' = [pc EXCEPT ![p] = "p_forget"]
            /\ loc' = [loc EXCEPT ![p] = [NoLoc EXCEPT !.todo = <<id>>]]
            /\ ret' = NoRet
    /\ UNCHANGED <<wire, tokens, fact, registry, clock, cache, deleted>>

\* protector.Forget after the origin returned nil: the wrapper's cache entry
ForgetEntry(p) ==
    /\ pc[p] = "p_forget"
    /\ MuFree
    /\ LET id == Head(loc[p].todo)
       IN IF prot.graceful
          THEN /\ deleted' = deleted
               /\ IF cache[id].in /\ cache[id].state # StateDeleted
                  THEN /\ cache' = [cache EXCEPT ![id].state = StateDisabled]
                       /\ prot' = [prot EXCEPT !.forgot = @ \cup {id}]
                       /\ ret' = ProtReturn(p, "forget", id, ErrNil, ErrNil, <<>>)
                  ELSE /\ cache' = cache
                       /\ prot' = prot
                       /\ ret' = ProtReturn(p, "forget", id, ErrForgetSubjectFailure,
                                            ErrKeyNotFound, <<>>)
          ELSE /\ cache' = IF cache[id].in
                           THEN [cache EXCEPT ![id].key = NoBytes,
                                              ![id].state = StateDeleted]
                           ELSE cache
               /\ deleted' = deleted \cup {id}
               /\ prot' = [prot EXCEPT !.forgot = @ \cup {id}]
               /\ ret' = ProtReturn(p, "forget", id, ErrNil, ErrNil, <<>>)
    /\ pc' = [pc EXCEPT ![p] = "idle"]
    /\ loc' = [loc EXCEPT ![p] = NoLoc]
    /\ UNCHANGED <<wire, tokens, fact, items, registry, clock>>

\* a Recover that reports every error is reported as a failure to recover
RecoverErr_Flat(err) == IF err = ErrNil THEN ErrNil ELSE ErrRecoverSubjectFailure

\* the public error of protector.Recover for an error of Engine.RenableKey
RecoverErr(err) ==
    IF err = ErrNil THEN ErrNil
    ELSE IF err = ErrKeyNotFound THEN ErrCannotRecoverSubject
    ELSE ErrRecoverSubjectFailure

\* protector.Recover up to the return of the origin's ReEnableKey, which the
\* cache wrapper calls first
Recover(p, id) ==
    /\ pc[p] = "idle"
    /\ IF NotDeleted(items[id])
       THEN /\ items' = [items EXCEPT ![id] = ReEnableUpdate(items[id], id, clock)]
            /\ pc' = [pc EXCEPT ![p] = "p_recover"]
            /\ loc' = [loc EXCEPT ![p] = [NoLoc EXCEPT !.todo = <<id>>]]
            /\ ret' = NoRet
       ELSE /\ items' = items
            /\ ret' = ProtReturn(p, "recover", id, RecoverErr(ErrKeyNotFound),
                                 ErrKeyNotFound, <<>>)
            /\ UNCHANGED <<pc, loc>>
    /\ UNCHANGED <<wire, tokens, fact, prot, registry, clock, cache, deleted>>

\* protector.Recover when the origin's UpdateItem fails for another reason
\* than its condition
RecoverFailure(p, id) ==
    /\ pc[p] = "idle"
    /\ ret' = ProtReturn(p, "recover", id, RecoverErr(ErrReEnableKeyFailure),
                         ErrReEnableKeyFailure, <<>>)
    /\ UNCHANGED <<wire, tokens, fact, prot, items, registry, clock, cache, pc, loc, deleted>>

\* protector.Recover after the origin returned nil: the wrapper's cache entry
RecoverEntry(p) ==
    /\ pc[p] = "p_recover"
    /\ MuFree
    /\ LET id == Head(loc[p].todo)
       IN IF cache[id].in /\ cache[id].state # StateDeleted
          THEN /\ cache' = [cache EXCEPT ![id].state = StateActive]
               /\ prot' = [prot EXCEPT !.forgot = @ \ {id}]
               /\ loc' = [q \in Procs |->
                             IF q = p THEN NoLoc
                             ELSE [loc[q] EXCEPT !.fg = @ \ {id}]]
               /\ ret' = ProtReturn(p, "recover", id, ErrNil, ErrNil, <<>>)
          ELSE /\ cache' = cache
               /\ prot' = prot
               /\ loc' = [loc EXCEPT ![p] = NoLoc]
               /\ ret' = ProtReturn(p, "recover", id, RecoverErr(ErrKeyNotFound),
                                    ErrKeyNotFound, <<>>)
    /\ pc' = [pc EXCEPT ![p] = "idle"]
    /\ UNCHANGED <<wire, tokens, fact, items, registry, clock, deleted>>

\* protector.Clear: the cache wrapper's ClearCache
Clear(p, force) ==
    /\ pc[p] = "idle"
    /\ MuFree
    /\ cache' = [x \in KeyIDs |->
                    IF cache[x].in /\ (force \/ cache[x].at + CacheTTL < Unix(clock))
                    THEN NoEntry
                    ELSE cache[x]]
    /\ ret' = ProtReturn(p, "clear", "", ErrNil, ErrNil, <<>>)
    /\ UNCHANGED <<wire, tokens, fact, prot, items, registry, clock, pc, loc, deleted>>

\* one Protector on the cache wrapper of the store, two callers, subject "a"
NextProt ==
    \/ Tick
    \/ \E v \in {<<>>, Tok("x")} : NewStruct("a", v)
    \/ \E p \in Procs : Encrypt(p)
    \/ \E p \in Procs : addNamespace(p)
    \/ \E p \in Procs : createKeys(p)
    \/ \E p \in Procs : handleExist(p)
    \/ \E p \in Procs, nonce \in Nonces : EncryptApply(p, nonce)
    \/ \E p \in Procs, r \in Replacements : Decrypt(p, r)
    \/ \E p \in Procs : Forget(p, "a")
    \/ \E p \in Procs : ForgetEntry(p)
    \/ \E p \in Procs : Recover(p, "a")
    \/ \E p \in Procs : RecoverFailure(p, "a")
    \/ \E p \in Procs : RecoverEntry(p)
    \/ \E p \in Procs, force \in BOOLEAN : Clear(p, force)

SpecProt == InitProt /\ [][NextProt]_vars

\* one Protector on the cache wrapper of the store, one caller, subject "a",
\* every plaintext
NextCodec ==
    \/ Tick
    \/ \E v \in PlainVals : NewStruct("a", v)
    \/ Encrypt("p1")
    \/ addNamespace("p1")
    \/ createKeys("p1")
    \/ handleExist("p1")
    \/ \E nonce \in Nonces : EncryptApply("p1", nonce)
    \/ \E r \in Replacements : Decrypt("p1", r)
    \/ Forget("p1", "a")
    \/ ForgetEntry("p1")
    \/ Recover("p1", "a")
    \/ RecoverEntry("p1")
    \/ \E force \in BOOLEAN : Clear("p1", force)

SpecCodec == InitProt /\ [][NextCodec]_vars

\* ------------------------------- kms.engine: GetKeys and GetOrCreateKeys
\* engine.GetKeys: the origin's GetKeys, every key decrypted
KmsGetKeys(p, ids) ==
    /\ pc[p] = "idle"
    /\ ret' = KmsKeysReturn(p, "get", [NoLoc EXCEPT !.ids = ids],
                            GetKeysOf(items, ids))
    /\ UNCHANGED <<wire, tokens, fact, prot, items, registry, clock, cache, pc, loc, deleted>>

\* engine.GetOrCreateKeys: the dry run of a keyGen that produces keys of
\* keyLen bytes, then the origin's GetOrCreateKeys with the wrapper's own
\* keyGen, up to the return of its GetKeys query
KmsGetOrCreateKeys(p, ids, keyLen) ==
    /\ pc[p] = "idle"
    /\ IF numberOfBytes(keyLen).err # ErrNil
       THEN /\ ret' = KmsReturn(p, "goc", "", ids, numberOfBytes(keyLen).err, EmptyMap)
            /\ UNCHANGED <<pc, loc, cache>>
       ELSE LET found == GetKeysOf(items, ids)
                l == [NoLoc EXCEPT !.ids = ids, !.keys = found,
                                   !.todo = SortIDs(ids \ DOMAIN found),
                                   !.del = ids \cap deleted,
                                   !.kms = numberOfBytes(keyLen).n,
                                   !.new = ids \ DOMAIN found]
            IN IF DOMAIN found = {}
               THEN /\ pc' = [pc EXCEPT ![p] = "goc_ns"]
                    /\ loc' = [loc EXCEPT ![p] = l]
                    /\ ret' = NoRet
                    /\ cache' = cache
               ELSE GocContinue(p, l)
    /\ UNCHANGED <<wire, tokens, fact, prot, items, registry, clock, deleted>>

\* callers of the KMS wrapper on the store
NextKms ==
    \/ \E p \in Procs, ids \in {{"a"}, {"a", "b"}} : KmsGetKeys(p, ids)
    \/ \E p \in Procs, ids \in {{"a"}, {"a", "b"}}, keyLen \in KeyGenLens :
          KmsGetOrCreateKeys(p, ids, keyLen)
    \/ \E p \in Procs : addNamespace(p)
    \/ \E p \in Procs : createKeys(p)
    \/ \E p \in Procs : handleExist(p)
    \/ \E p \in Procs : KmsDisableKey(p, "a")
    \/ \E p \in Procs : KmsReEnableKey(p, "a")

SpecKms == Init /\ [][NextKms]_vars

\* --------------------------------------- dynamodb.Engine: the token engine
ErrTokenizeFailure == "ErrTokenizeFailure"
ErrDeleteTokenFailure == "ErrDeleteTokenFailure"

\* slices.Sort(values), as the list Tokenize walks
SortedValues(values) ==
    (IF "v" \in values THEN <<"v">> ELSE <<>>) \o (IF "w" \in values THEN <<"w">> ELSE <<>>)

\* getTokens: the query of the index keeps, for every value that has token
\* items, the item the query returned last; the order of two items of one
\* value is not fixed by the index
getTokens(table, values) ==
    LET mapped == {v \in values : \E i \in table : i.tknv = v}
    IN {f \in [mapped -> 1..MaxTokens] : \A v \in mapped : TokenItem(f[v], v) \in table}

\* the records TokenGenFunc makes for the values of vs, on the uuids after n
RECURSIVE missedTokens(_, _)
missedTokens(vs, n) ==
    IF vs = <<>> THEN <<>>
    ELSE <<TokenItem(n + 1, Head(vs))>> \o missedTokens(Tail(vs), n + 1)

\* the return of a call on the token engine, which its history records
TokenReturn(p, op, values, err, valueTokens) ==
    [Return(p, op, "", values, err, valueTokens) EXCEPT !.via = "token"]

Recorded(last, valueTokens) ==
    [v \in TokenValues |-> IF v \in DOMAIN valueTokens THEN valueTokens[v] ELSE last[v]]

\* Engine.Tokenize up to createTokens: the tokens found, the namespace
\* registered when none was, a new token for every value that has none
Tokenize(p, values) ==
    /\ pc[p] = "idle"
    /\ \E found \in getTokens(tokens.table, values) :
          LET missed == SelectSeq(SortedValues(values), LAMBDA v : v \notin DOMAIN found)
          IN /\ tokens.next + Len(missed) <= MaxTokens
             /\ registry' = IF DOMAIN found = {} THEN registry \cup {Namespace} ELSE registry
             /\ IF missed = <<>>
                THEN /\ ret' = TokenReturn(p, "tokenize", values, ErrNil, found)
                     /\ tokens' = [tokens EXCEPT !.last = Recorded(@, found)]
                     /\ UNCHANGED <<pc, loc>>
                ELSE /\ ret' = NoRet
                     /\ tokens' = [tokens EXCEPT !.next = @ + Len(missed)]
                     /\ pc' = [pc EXCEPT ![p] = "t_create"]
                     /\ loc' = [loc EXCEPT ![p] =
                                  [NoLoc EXCEPT !.ids = values, !.keys = found,
                                                !.todo = missedTokens(missed, tokens.next)]]
    /\ UNCHANGED <<wire, fact, prot, items, clock, cache, deleted>>

\* createTokens: one conditional PutItem, on the token, of the next record;
\* after the last one Tokenize returns the tokens found and the new ones
createTokens(p) ==
    /\ pc[p] = "t_create"
    /\ LET l == loc[p]
           t == Head(l.todo)
           valueTokens == (t.tknv :> t.tkn) @@ l.keys
       IN IF \E i \in tokens.table : i.tkn = t.tkn
          THEN /\ tokens' = tokens
               /\ ret' = TokenReturn(p, "tokenize", l.ids, ErrTokenizeFailure, EmptyMap)
               /\ pc' = [pc EXCEPT ![p] = "idle"]
               /\ loc' = [loc EXCEPT ![p] = NoLoc]
          ELSE IF Tail(l.todo) = <<>>
          THEN /\ tokens' = [tokens EXCEPT !.table = @ \cup {t},
                                           !.last = Recorded(@, valueTokens)]
               /\ ret' = TokenReturn(p, "tokenize", l.ids, ErrNil, valueTokens)
               /\ pc' = [pc EXCEPT ![p] = "idle"]
               /\ loc' = [loc EXCEPT ![p] = NoLoc]
          ELSE /\ tokens' = [tokens EXCEPT !.table = @ \cup {t}]
               /\ ret' = NoRet
               /\ pc' = pc
               /\ loc' = [loc EXCEPT ![p].todo = Tail(@), ![p].keys = valueTokens]
    /\ UNCHANGED <<wire, fact, prot, items, registry, clock, cache, deleted>>

\* Engine.DeleteToken: one DeleteItem under the condition that the item exists
DeleteToken(p, token) ==
    /\ pc[p] = "idle"
    /\ IF \E i \in tokens.table : i.tkn = token
       THEN /\ tokens' = [tokens EXCEPT !.table = {i \in @ : i.tkn # token},
                                        !.last = [v \in TokenValues |-> 0]]
            /\ ret' = [TokenReturn(p, "deletetoken", {}, ErrNil, EmptyMap)
                          EXCEPT !.val = <<token>>]
       ELSE /\ tokens' = tokens
            /\ ret' = [TokenReturn(p, "deletetoken", {}, ErrDeleteTokenFailure, EmptyMap)
                          EXCEPT !.val = <<token>>]
    /\ UNCHANGED <<wire, fact, prot, items, registry, clock, cache, pc, loc, deleted>>

NextTok ==
    \/ \E p \in Procs, values \in SUBSET TokenValues \ {{}} : Tokenize(p, values)
    \/ \E p \in Procs : createTokens(p)
    \/ \E p \in Procs, token \in 1..MaxTokens : DeleteToken(p, token)

SpecTok == Init /\ [][NextTok]_vars

\* ------------------------------------------------ the versioned wire format
\* a string is the sequence of its bytes; "<pii:"
wirePrefix == <<60, 112, 105, 105, 58>>

\* [A-Za-z0-9+/]
B64Chars == (65..90) \cup (97..122) \cup (48..57) \cup {43, 47}

\* base64.StdEncoding.EncodeToString: 3 bytes to 4 characters of the
\* alphabet, padded with "="
RECURSIVE EncodeToString(_)
EncodeToString(b) ==
    LET Char(i) == IF i < 26 THEN 65 + i
                   ELSE IF i < 52 THEN 97 + (i - 26)
                   ELSE IF i < 62 THEN 48 + (i - 52)
                   ELSE IF i = 62 THEN 43 ELSE 47
    IN IF b = <<>> THEN <<>>
       ELSE IF Len(b) = 1
       THEN <<Char(b[1] \div 4), Char((b[1] % 4) * 16), 61, 61>>
       ELSE IF Len(b) = 2
       THEN <<Char(b[1] \div 4), Char((b[1] % 4) * 16 + b[2] \div 16),
              Char((b[2] % 16) * 4), 61>>
       ELSE <<Char(b[1] \div 4), Char((b[1] % 4) * 16 + b[2] \div 16),
              Char((b[2] % 16) * 4 + b[3] \div 64), Char(b[3] % 64)>>
            \o EncodeToString(SubSeq(b, 4, Len(b)))

\* base64.StdEncoding.DecodeString: groups of 4 characters, padding only at
\* the end
RECURSIVE DecodeString(_)
DecodeString(s) ==
    LET Index(c) == IF c \in 65..90 THEN c - 65
                    ELSE IF c \in 97..122 THEN c - 97 + 26
                    ELSE IF c \in 48..57 THEN c - 48 + 52
                    ELSE IF c = 43 THEN 62 ELSE 63
        bad == [ok |-> FALSE, bytes |-> <<>>]
    IN IF s = <<>> THEN [ok |-> TRUE, bytes |-> <<>>]
       ELSE IF Len(s) < 4 \/ s[1] \notin B64Chars \/ s[2] \notin B64Chars THEN bad
       ELSE LET b1 == Index(s[1]) * 4 + Index(s[2]) \div 16
                b2 == (Index(s[2]) % 16) * 16 + Index(s[3]) \div 4
                b3 == (Index(s[3]) % 4) * 64 + Index(s[4])
                rest == DecodeString(SubSeq(s, 5, Len(s)))
            IN IF s[3] = 61
               THEN [ok |-> Len(s) = 4 /\ s[4] = 61, bytes |-> <<b1>>]
               ELSE IF s[3] \notin B64Chars THEN bad
               ELSE IF s[4] = 61
               THEN [ok |-> Len(s) = 4, bytes |-> <<b1, b2>>]
               ELSE IF s[4] \notin B64Chars THEN bad
               ELSE [ok |-> rest.ok, bytes |-> <<b1, b2, b3>> \o rest.bytes]

\* how many leading bytes of s are in set
RECURSIVE LeadingIn(_, _)
LeadingIn(s, set) ==
    IF s = <<>> \/ Head(s) \notin set THEN 0 ELSE 1 + LeadingIn(Tail(s), set)

\* isWireFormatted: the prefix, and the match of wireFormatRegex
\* ^<pii:\d*:[A-Za-z0-9+/]+={0,2}:[A-Za-z0-9+/]+={0,2}$
isWireFormatted(str) ==
    LET Drop(s, n) == SubSeq(s, n + 1, Len(s))
        \* [A-Za-z0-9+/]+={0,2} at the head of s, and what follows it
        Match(s) ==
            LET n == LeadingIn(s, B64Chars)
                e == LeadingIn(Drop(s, n), {61})
            IN [ok |-> n >= 1 /\ e <= 2, rest |-> Drop(s, n + e)]
        r0 == Drop(str, Len(wirePrefix))
        r1 == Drop(r0, LeadingIn(r0, 48..57))
    IN /\ HasPrefix(str, wirePrefix)
       /\ r1 # <<>>
       /\ Head(r1) = 58
       /\ Match(Tail(r1)).ok
       /\ Match(Tail(r1)).rest # <<>>
       /\ Head(Match(Tail(r1)).rest) = 58
       /\ Match(Tail(Match(Tail(r1)).rest)).ok
       /\ Match(Tail(Match(Tail(r1)).rest)).rest = <<>>

ErrInvalidWireFormat == "ErrInvalidWireFormat"

\* a wireFormat that writes the subject ID as it is
wireFormat_RawSubject(subjectID, cipherText, version) ==
    LET RECURSIVE Itoa(_)
        Itoa(n) == IF n < 10 THEN <<48 + n>> ELSE Itoa(n \div 10) \o <<48 + (n % 10)>>
    IN wirePrefix \o (IF version > 1 THEN Itoa(version) ELSE <<>>) \o <<58>>
          \o subjectID \o <<58>> \o cipherText

\* wireFormat: the version by strconv.Itoa only when it is above 1, the
\* subject ID in base64
wireFormat(subjectID, cipherText, version) ==
    LET RECURSIVE Itoa(_)
        Itoa(n) == IF n < 10 THEN <<48 + n>> ELSE Itoa(n \div 10) \o <<48 + (n % 10)>>
    IN wirePrefix \o (IF version > 1 THEN Itoa(version) ELSE <<>>) \o <<58>>
          \o EncodeToString(subjectID) \o <<58>> \o cipherText

\* parseWireFormat: the three parts after the prefix; the version by
\* strconv.Atoi, 1 when that part is empty
parseWireFormat(str) ==
    LET RECURSIVE Atoi(_)
        Atoi(s) == IF s = <<>> THEN 0
                   ELSE Atoi(SubSeq(s, 1, Len(s) - 1)) * 10 + (s[Len(s)] - 48)
        Drop(s, n) == SubSeq(s, n + 1, Len(s))
        r0 == Drop(str, Len(wirePrefix))
        n0 == LeadingIn(r0, (0..255) \ {58})
        r1 == Drop(r0, n0 + 1)
        n1 == LeadingIn(r1, (0..255) \ {58})
        version == IF n0 = 0 THEN 1 ELSE Atoi(SubSeq(r0, 1, n0))
        subject == DecodeString(SubSeq(r1, 1, n1))
    IN IF ~isWireFormatted(str)
       THEN [done |-> TRUE, version |-> 0, subjectID |-> <<>>, cipherText |-> <<>>,
             err |-> ErrInvalidWireFormat]
       ELSE IF ~subject.ok
       THEN [done |-> TRUE, version |-> version, subjectID |-> <<>>,
             cipherText |-> <<>>, err |-> ErrInvalidWireFormat]
       ELSE [done |-> TRUE, version |-> version, subjectID |-> subject.bytes,
             cipherText |-> Drop(r1, n1 + 1), err |-> ErrNil]

\* a caller with a version, a subject ID ("", "a", "a:b", "key1") and the
\* bytes of a ciphertext
InitWire ==
    /\ items = [x \in AllIDs |-> NoRecord]
    /\ registry = {}
    /\ clock = 0
    /\ cache = [x \in KeyIDs |-> NoEntry]
    /\ deleted = {}
    /\ pc = [p \in Procs |-> "idle"]
    /\ loc = [p \in Procs |-> NoLoc]
    /\ ret = NoRet
    /\ prot = NoProt
    /\ tokens = NoTokens
    /\ fact = NoFact
    /\ \E v \in {-1, 0, 1, 2, 12},
          s \in {<<>>, <<97>>, <<97, 58, 98>>, <<107, 101, 121, 49>>},
          c \in {<<>>, <<7>>, <<255, 254>>, <<0, 16, 131>>, <<250, 17, 60, 58>>} :
          wire = [NoWire EXCEPT !.version = v, !.subjectID = s, !.cipher = c]

\* the caller formats the ciphertext, in base64, of the subject
WireFormat ==
    /\ ~wire.formatted
    /\ wire' = [wire EXCEPT !.formatted = TRUE,
                            !.str = wireFormat(wire.subjectID,
                                               EncodeToString(wire.cipher),
                                               wire.version)]
    /\ ret' = NoRet
    /\ UNCHANGED <<tokens, fact, prot, items, registry, clock, cache, pc, loc, deleted>>

\* the caller parses the string it has formatted
ParseWireFormat ==
    /\ wire.formatted
    /\ ~wire.out.done
    /\ wire' = [wire EXCEPT !.out = parseWireFormat(wire.str)]
    /\ ret' = NoRet
    /\ UNCHANGED <<tokens, fact, prot, items, registry, clock, cache, pc, loc, deleted>>

NextWire ==
    \/ WireFormat
    \/ ParseWireFormat

SpecWire == InitWire /\ [][NextWire]_vars

\* ------------------------------------------------------------- the factory
\* a clear that removes a Protector as soon as IDLE has gone by
factoryClear_AtIdle(f, force, now) ==
    [n \in DOMAIN f.reg |->
        IF f.reg[n] # 0 /\ (f.lastOpsAt[f.reg[n]] + IdleDur <= now \/ force)
        THEN 0
        ELSE f.reg[n]]

\* factory.clear: the registry after it; every Protector gets Clear(ctx,
\* force), and the ones whose lastOpsAt is more than IDLE ago, or all of
\* them when forced, are deleted
factoryClear(f, force, now) ==
    [n \in DOMAIN f.reg |->
        IF f.reg[n] # 0 /\ (f.lastOpsAt[f.reg[n]] + IdleDur < now \/ force)
        THEN 0
        ELSE f.reg[n]]

\* an Instance that builds a Protector on every call
Instance_Rebuild(p, n) ==
    /\ pc[p] = "idle"
    /\ fact.built < MaxBuilt
    /\ LET tp == fact.built + 1
       IN /\ fact' = [fact EXCEPT !.reg[n] = tp, !.built = tp,
                                  !.lastOpsAt[tp] = clock, !.held[p] = tp,
                                  !.clearNs[p] = n]
          /\ ret' = [Return(p, "instance", n, {}, ErrNil, EmptyMap)
                        EXCEPT !.via = "factory", !.val = <<tp>>]
    /\ UNCHANGED <<wire, tokens, prot, items, registry, clock, cache, pc, loc, deleted>>

\* factory.Instance, under the mutex: the Protector of the namespace, which
\* newProtector builds and markOp stamps when the registry has none
Instance(p, n) ==
    /\ pc[p] = "idle"
    /\ fact.reg[n] = 0 => fact.built < MaxBuilt
    /\ LET tp == IF fact.reg[n] = 0 THEN fact.built + 1 ELSE fact.reg[n]
       IN /\ fact' = IF fact.reg[n] = 0
                     THEN [fact EXCEPT !.reg[n] = tp, !.built = tp,
                                       !.lastOpsAt[tp] = clock, !.held[p] = tp,
                                       !.clearNs[p] = n]
                     ELSE [fact EXCEPT !.held[p] = tp, !.clearNs[p] = n]
          /\ ret' = [Return(p, "instance", n, {}, ErrNil, EmptyMap)
                        EXCEPT !.via = "factory", !.val = <<tp>>]
    /\ UNCHANGED <<wire, tokens, prot, items, registry, clock, cache, pc, loc, deleted>>

\* traceable.Encrypt, Decrypt, Forget, Recover: when the call of the
\* Protector returns, markOp
TracedOp(p) ==
    /\ pc[p] = "idle"
    /\ fact.held[p] # 0
    /\ fact' = [fact EXCEPT !.lastOpsAt[fact.held[p]] = clock]
    /\ ret' = [Return(p, "traced", "", {}, ErrNil, EmptyMap)
                  EXCEPT !.via = "factory", !.val = <<fact.held[p]>>]
    /\ UNCHANGED <<wire, tokens, prot, items, registry, clock, cache, pc, loc, deleted>>

\* factory.Monitor: starts the goroutine
Monitor ==
    /\ fact.monitor = "off"
    /\ fact' = [fact EXCEPT !.monitor = "running"]
    /\ ret' = NoRet
    /\ UNCHANGED <<wire, tokens, prot, items, registry, clock, cache, pc, loc, deleted>>

\* the caller cancels the context it gave to Monitor
CancelContext ==
    /\ fact.ctx = "live"
    /\ fact' = [fact EXCEPT !.ctx = "cancelled"]
    /\ ret' = NoRet
    /\ UNCHANGED <<wire, tokens, prot, items, registry, clock, cache, pc, loc, deleted>>

\* the goroutine of Monitor, case <-ticker.C: clear(ctx, false)
MonitorTick ==
    /\ fact.monitor = "running"
    /\ fact' = [fact EXCEPT !.reg = factoryClear(fact, FALSE, clock)]
    /\ ret' = [Return("monitor", "clear", "",
                      {n \in DOMAIN fact.reg : fact.reg[n] # 0 /\ fact'.reg[n] = 0},
                      ErrNil, EmptyMap) EXCEPT !.via = "factory"]
    /\ UNCHANGED <<wire, tokens, prot, items, registry, clock, cache, pc, loc, deleted>>

\* a return of the goroutine that clears without force
MonitorDone_NoForce ==
    /\ fact.monitor = "running"
    /\ fact.ctx = "cancelled"
    /\ LET left == factoryClear(fact, FALSE, clock)
       IN fact' = [fact EXCEPT !.reg = left,
                               !.monitor = "stopped",
                               !.final = [done |-> TRUE, ctx |-> "clearCtx", force |-> FALSE,
                                          had |-> {fact.reg[n] : n \in DOMAIN fact.reg} \ {0},
                                          left |-> {left[n] : n \in DOMAIN left} \ {0}]]
    /\ ret' = NoRet
    /\ UNCHANGED <<wire, tokens, prot, items, registry, clock, cache, pc, loc, deleted>>

\* the goroutine of Monitor, case <-ctx.Done(): it returns, and its deferred
\* function makes clear(clearCtx, true) with a context of its own
MonitorDone ==
    /\ fact.monitor = "running"
    /\ fact.ctx = "cancelled"
    /\ LET left == factoryClear(fact, TRUE, clock)
       IN fact' = [fact EXCEPT !.reg = left,
                               !.monitor = "stopped",
                               !.final = [done |-> TRUE, ctx |-> "clearCtx", force |-> TRUE,
                                          had |-> {fact.reg[n] : n \in DOMAIN fact.reg} \ {0},
                                          left |-> {left[n] : n \in DOMAIN left} \ {0}]]
    /\ ret' = NoRet
    /\ UNCHANGED <<wire, tokens, prot, items, registry, clock, cache, pc, loc, deleted>>

\* two callers of a factory of two namespaces, and its monitor
NextFact ==
    \/ Tick
    \/ \E p \in Procs, n \in DOMAIN fact.reg : Instance(p, n)
    \/ \E p \in Procs : TracedOp(p)
    \/ Monitor
    \/ CancelContext
    \/ MonitorTick
    \/ MonitorDone

SpecFact == Init /\ [][NextFact]_vars

\* select takes the case of ctx.Done(), which stays ready, in the end
SpecFactLive == SpecFact /\ WF_vars(MonitorDone)

\* the FactoryClearFunc a caller got from Instance: it reads f.reg[namespace]
\* when it is called, without the mutex, and calls Clear(context.Background(),
\* true) on what it reads; the call on the nil interface of a namespace that
\* is not registered panics, and a read of the map while a clear of the
\* monitor deletes from it, or while the Instance of another caller adds to
\* it, is a data race that the run-time may stop with a fatal error
FactoryClearFunc(p, race) ==
    /\ pc[p] = "idle"
    /\ fact.clearNs[p] # ""
    /\ race => \/ /\ fact.monitor = "running"
                  /\ factoryClear(fact, fact.ctx = "cancelled", clock) # fact.reg
               \/ /\ \E q \in Procs \ {p} : pc[q] = "idle"
                  /\ \E n \in DOMAIN fact.reg : fact.reg[n] = 0
    /\ LET tp == fact.reg[fact.clearNs[p]]
       IN ret' = [Return(p, "clearfunc", fact.clearNs[p], {},
                         IF race THEN "fatal error: concurrent map read and map write"
                         ELSE IF tp = 0 THEN PanicNilDeref
                         ELSE ErrNil,
                         EmptyMap)
                     EXCEPT !.via = "factory", !.val = IF race THEN <<>> ELSE <<tp>>]
    /\ UNCHANGED <<wire, tokens, fact, prot, items, registry, clock, cache, pc, loc, deleted>>

\* the callers of the factory that also call their FactoryClearFunc
NextFactClear ==
    \/ Tick
    \/ \E p \in Procs, n \in DOMAIN fact.reg : Instance(p, n)
    \/ \E p \in Procs : TracedOp(p)
    \/ Monitor
    \/ CancelContext
    \/ MonitorTick
    \/ MonitorDone
    \/ \E p \in Procs, race \in BOOLEAN : FactoryClearFunc(p, race)

SpecFactClear == Init /\ [][NextFactClear]_vars

\* two callers of a cache wrapper that is the only client of its store
NextSole ==
    \/ Tick
    \/ \E p \in Procs : CacheGetKeys(p, {"a"})
    \/ \E p \in Procs : CacheGetOrCreateKeys(p, {"a"})
    \/ \E p \in Procs : addNamespace(p)
    \/ \E p \in Procs : createKeys(p)
    \/ \E p \in Procs : handleExist(p)
    \/ \E p \in Procs : CacheDisableKey(p, "a")
    \/ \E p \in Procs : CacheDisableEntry(p)
    \/ \E p \in Procs : CacheRenableKey(p, "a")
    \/ \E p \in Procs : CacheRenableEntry(p)
    \/ \E p \in Procs : CacheDeleteKey(p, "a")
    \/ \E p \in Procs : CacheDeleteEntry(p)

SpecSole == Init /\ [][NextSole]_vars

\* ------------------------- the store calls of GetOrCreateKeys that fail
ErrGetKeyFailure == "ErrGetKeyFailure"
ErrPersistKeyFailure == "ErrPersistKeyFailure"

\* GetOrCreateKeys whose GetKeys query fails: nil keys, ErrGetKeyFailure
GetKeysError(p, ids) ==
    /\ pc[p] = "idle"
    /\ ids # {}
    /\ ret' = Return(p, "goc", "", ids, ErrGetKeyFailure, EmptyMap)
    /\ UNCHANGED <<wire, tokens, fact, prot, items, registry, clock, cache, pc, loc, deleted>>

\* GetOrCreateKeys whose addNamespace fails: nil keys, ErrPersistKeyFailure
addNamespaceError(p) ==
    /\ pc[p] = "goc_ns"
    /\ pc' = [pc EXCEPT ![p] = "idle"]
    /\ loc' = [loc EXCEPT ![p] = NoLoc]
    /\ ret' = Return(p, "goc", "", loc[p].ids, ErrPersistKeyFailure, EmptyMap)
    /\ UNCHANGED <<wire, tokens, fact, prot, items, registry, clock, cache, deleted>>

\* createKeys whose PutItem fails, not on its condition: GetOrCreateKeys
\* returns the keys its query found and ErrPersistKeyFailure
createKeysError(p) ==
    /\ pc[p] = "goc_put"
    /\ pc' = [pc EXCEPT ![p] = "idle"]
    /\ loc' = [loc EXCEPT ![p] = NoLoc]
    /\ ret' = Return(p, "goc", "", loc[p].ids, ErrPersistKeyFailure, loc[p].keys)
    /\ UNCHANGED <<wire, tokens, fact, prot, items, registry, clock, cache, deleted>>

\* handleExist whose UpdateItem fails, not on its condition: the error is
\* dropped and out.Attributes is read, which panics when the client returned
\* a nil output and else gives no _key, so that freshNew gets "" for the key
handleExistError(p, out) ==
    /\ pc[p] = "goc_exist"
    /\ IF out = "nil"
       THEN /\ pc' = [pc EXCEPT ![p] = "idle"]
            /\ loc' = [loc EXCEPT ![p] = NoLoc]
            /\ ret' = Return(p, "goc", "", loc[p].ids, PanicNilDeref, EmptyMap)
            /\ cache' = cache
       ELSE GocContinue(p, [loc[p] EXCEPT !.todo = Tail(@),
                                          !.fresh = (Head(loc[p].todo) :> NoBytes) @@ @])
    /\ UNCHANGED <<wire, tokens, fact, prot, items, registry, clock, deleted>>

\* callers of GetOrCreateKeys and of the lifecycle calls on a store whose
\* calls may fail
NextFail ==
    \/ \E p \in Procs, ids \in SUBSET KeyIDs : GetOrCreateKeys(p, ids)
    \/ \E p \in Procs : addNamespace(p)
    \/ \E p \in Procs : createKeys(p)
    \/ \E p \in Procs : handleExist(p)
    \/ \E p \in Procs, ids \in SUBSET KeyIDs : GetKeysError(p, ids)
    \/ \E p \in Procs : addNamespaceError(p)
    \/ \E p \in Procs : createKeysError(p)
    \/ \E p \in Procs, out \in {"nil", "empty"} : handleExistError(p, out)
    \/ \E p \in Procs, id \in KeyIDs : DisableKey(p, id)
    \/ \E p \in Procs, id \in KeyIDs : ReEnableKey(p, id)

SpecFail == Init /\ [][NextFail]_vars

\* ----------------------- a field in the struct of another subject
\* the caller sets the subjectID field of its struct to another subject and
\* leaves the data field as it is
SetSubjectField(id) ==
    /\ StructFree
    /\ prot.rec.id \notin {"", id}
    /\ prot' = [prot EXCEPT !.rec.id = id]
    /\ ret' = NoRet
    /\ UNCHANGED <<wire, tokens, fact, items, registry, clock, cache, pc, loc, deleted>>

\* one Protector, one caller, the structs of two subjects
NextSubj ==
    \/ \E id \in KeyIDs : NewStruct(id, Tok("x"))
    \/ \E id \in KeyIDs : SetSubjectField(id)
    \/ Encrypt("p1")
    \/ addNamespace("p1")
    \/ createKeys("p1")
    \/ handleExist("p1")
    \/ \E nonce \in Nonces : EncryptApply("p1", nonce)
    \/ \E r \in Replacements : Decrypt("p1", r)
    \/ \E id \in KeyIDs : Forget("p1", id)
    \/ ForgetEntry("p1")

SpecSubj == InitProt /\ [][NextSubj]_vars

\* --------------------------- memory.TokenEngine without origin: tokenCache
\* a map without the given keys (delete on a Go map)
MapWithout(m, keys) == [k \in DOMAIN m \ keys |-> m[k]]

\* TokenEngine.Tokenize of one value up to the return of cache.token: the
\* cached token, or on to TokenGenFunc and cache.add
MemTokenize(p, value) ==
    /\ pc[p] = "idle"
    /\ IF value \in DOMAIN tokens.valueToToken
       THEN /\ ret' = TokenReturn(p, "tokenize", {value}, ErrNil,
                                  (value :> tokens.valueToToken[value].Token))
            /\ UNCHANGED <<pc, loc>>
       ELSE /\ ret' = NoRet
            /\ pc' = [pc EXCEPT ![p] = "mt_add"]
            /\ loc' = [loc EXCEPT ![p] = [NoLoc EXCEPT !.todo = <<value>>]]
    /\ UNCHANGED <<wire, tokens, fact, prot, items, registry, clock, cache, deleted>>

\* TokenEngine.Tokenize for the missed value: DefaultTokenGen draws a uuid,
\* tokenCache.add puts one entry in both maps
MemTokenAdd(p) ==
    /\ pc[p] = "mt_add"
    /\ tokens.next < MaxTokens
    /\ LET value == Head(loc[p].todo)
           newToken == tokens.next + 1
           entry == [Token |-> newToken, Value |-> value, At |-> Unix(clock)]
       IN /\ tokens' = [tokens EXCEPT
                           !.next = newToken,
                           !.tokenToValue = (newToken :> entry) @@ @,
                           !.valueToToken = (value :> entry) @@ @]
          /\ ret' = TokenReturn(p, "tokenize", {value}, ErrNil, (value :> newToken))
    /\ pc' = [pc EXCEPT ![p] = "idle"]
    /\ loc' = [loc EXCEPT ![p] = NoLoc]
    /\ UNCHANGED <<wire, fact, prot, items, registry, clock, cache, deleted>>

\* TokenEngine.DeleteToken: tokenCache.delete of the token and of the value
\* of its entry
MemDeleteToken(p, token) ==
    /\ pc[p] = "idle"
    /\ tokens' = IF token \in DOMAIN tokens.tokenToValue
                 THEN [tokens EXCEPT
                          !.tokenToValue = MapWithout(@, {token}),
                          !.valueToToken =
                              MapWithout(@, {tokens.tokenToValue[token].Value})]
                 ELSE tokens
    /\ ret' = [TokenReturn(p, "deletetoken", {}, ErrNil, EmptyMap) EXCEPT !.val = <<token>>]
    /\ UNCHANGED <<wire, fact, prot, items, registry, clock, cache, pc, loc, deleted>>

\* TokenEngine.ClearCache: tokenCache.clear walks tokenToValue and deletes,
\* from both maps, the entries that are expired under the ttl of
\* NewTokenEngine, which is 0, or all of them
MemTokenClear(p, force) ==
    /\ pc[p] = "idle"
    /\ LET gone == {t \in DOMAIN tokens.tokenToValue :
                       force \/ tokens.tokenToValue[t].At + 0 < Unix(clock)}
       IN tokens' = [tokens EXCEPT
                        !.tokenToValue = MapWithout(@, gone),
                        !.valueToToken =
                            MapWithout(@, {tokens.tokenToValue[t].Value : t \in gone})]
    /\ ret' = TokenReturn(p, "clear", {}, ErrNil, EmptyMap)
    /\ UNCHANGED <<wire, fact, prot, items, registry, clock, cache, pc, loc, deleted>>

\* two callers of a TokenEngine that has no origin
NextMemTok ==
    \/ Tick
    \/ \E p \in Procs, value \in TokenValues : MemTokenize(p, value)
    \/ \E p \in Procs : MemTokenAdd(p)
    \/ \E p \in Procs, token \in 1..MaxTokens : MemDeleteToken(p, token)
    \/ \E p \in Procs, force \in BOOLEAN : MemTokenClear(p, force)

SpecMemTok == Init /\ [][NextMemTok]_vars

\* ------------------------------------------------------------------ claims
\* key IDs a call in progress has found, created or read back so far
Contrib(l) == DOMAIN l.keys \cup DOMAIN l.gen \cup DOMAIN l.fresh

\* C1: once the key item of a subject is DELETED, no step of any call
\* (disable, re-enable, delete, get, get-or-create, sweep), on the store or
\* through a wrapper, whatever the interleaving, takes it to another state;
\* and a cache entry that is DELETED is never ACTIVE or DISABLED again.
C1_DeletedIsTerminal ==
    [][/\ \A id \in AllIDs :
             items[id].state = StateDeleted => items'[id].state = StateDeleted
       /\ \A id \in KeyIDs :
             cache[id].state = StateDeleted
                => cache'[id].state \in {StateDeleted, NoItem}]_vars

\* a get-or-create on the key has returned while the key is DELETED, in the
\* store and in the cache
C1_Witness ==
    /\ items["a"].state = StateDeleted
    /\ items["a"].kid
    /\ cache["a"].state = StateDeleted
    /\ ret.op = "goc"
    /\ ret.ids = {"a"}

\* C2: a key ID enters the key map of GetKeys or GetOrCreateKeys only in a
\* store call that finds its key ACTIVE: the returned map holds no ID that
\* the call read as DISABLED or DELETED, and these IDs bring no error.
C2_KeyMapOnlyActive ==
    [][\A id \in KeyIDs :
          /\ \A p \in Procs :
                (id \in Contrib(loc'[p]) /\ id \notin Contrib(loc[p]))
                    => items'[id].state = StateActive
          /\ (ret'.op \in {"get", "goc"} /\ id \in DOMAIN ret'.keys)
                    => /\ ret'.err = ErrNil
                       /\ id \in ret'.ids
                       /\ \/ items'[id].state = StateActive
                          \/ /\ ret'.op = "goc"
                             /\ id \in Contrib(loc[ret'.proc])]_vars

\* a get of two keys has returned the ACTIVE one and left out the DISABLED one
C2_Witness ==
    /\ ret.op = "get"
    /\ ret.ids = {"a", "b"}
    /\ ret.err = ErrNil
    /\ DOMAIN ret.keys = {"b"}
    /\ items["a"].state = StateDisabled
    /\ items["a"].kid

\* C3: a get-or-create that begins after DeleteKey of a key ID has returned
\* nil, and has the ID in its input, returns a map without the ID and leaves
\* no ACTIVE key for it, whether or not the ID had a key when it was deleted.
C3_NoResurrection ==
    [][\A id \in KeyIDs :
          LET p == ret'.proc
              del == IF pc[p] = "idle" THEN ret'.ids \cap deleted ELSE loc[p].del
          IN (ret'.op = "goc" /\ id \in del)
                => /\ id \notin DOMAIN ret'.keys
                   /\ cache'[id].state # StateActive
                   /\ items'[id].state # StateActive]_vars

\* C4: when callers run get-or-create concurrently for key IDs that have no
\* item yet, one item is stored per ID, its material is never replaced, and
\* every returned map holds the stored material for every requested ID.
C4_ConcurrentCreate ==
    /\ [](ret.op = "goc" =>
             \A id \in ret.ids :
                 /\ items[id].state = StateActive
                 /\ items[id].kid
                 /\ id \in DOMAIN ret.keys
                 /\ ret.keys[id] = items[id].key)
    /\ [][\A id \in KeyIDs :
             items[id].state # NoItem => items'[id].key = items[id].key]_vars

\* the caller that lost the race on "a" has returned the winner's material
C4_Witness ==
    /\ ret.op = "goc"
    /\ "a" \in ret.fresh
    /\ ret.keys["a"] = items["a"].key
    /\ ret.keys["a"] # KeyGen(ret.proc, "a")

\* the step is the store call of a DisableKey or ReEnableKey of caller p on the
\* key id, made on the store, through the KMS wrapper or through the cache
\* wrapper
IsLifecycleCall(p, id) ==
    /\ pc[p] = "idle"
    /\ \/ (ret'.proc = p /\ ret'.op \in {"disable", "reenable"} /\ ret'.id = id)
       \/ (pc'[p] \in {"w_disable", "w_renable"} /\ loc'[p].todo = <<id>>)

\* C5: a DisableKey or ReEnableKey on a key that is DELETED, by DeleteKey or
\* by the sweep, returns ErrKeyNotFound and changes nothing, whether it is
\* called on the store, on the KMS wrapper or on the cache wrapper.
C5_DeletedNotFound ==
    [][\A p \in Procs, id \in KeyIDs :
          (IsLifecycleCall(p, id) /\ items[id].state = StateDeleted)
             => /\ ret'.proc = p
                /\ ret'.err = ErrKeyNotFound
                /\ pc'[p] = "idle"
                /\ items' = items
                /\ cache' = cache]_vars

\* a re-enable through the cache wrapper of a key that the sweep has deleted,
\* and that the cache still holds as DISABLED, has returned ErrKeyNotFound
C5_Witness ==
    /\ ret.via = "cache"
    /\ ret.op = "reenable"
    /\ ret.err = ErrKeyNotFound
    /\ items[ret.id].state = StateDeleted
    /\ items[ret.id].kid
    /\ ret.id \notin deleted
    /\ cache[ret.id].state = StateDisabled

\* the step is the store call of a ReEnableKey of caller p on the key id
IsReEnableCall(p, id) ==
    /\ pc[p] = "idle"
    /\ \/ (ret'.proc = p /\ ret'.op = "reenable" /\ ret'.id = id)
       \/ (pc'[p] = "w_renable" /\ loc'[p].todo = <<id>>)

\* C6: no step changes the material of a key that is ACTIVE or DISABLED; a
\* successful ReEnableKey of a DISABLED key makes it ACTIVE, and GetKeys
\* then returns it with the very material it had while (hence before) it was
\* disabled; the same holds of the entry of the cache wrapper.
C6_ReEnableSameMaterial ==
    [][\A id \in KeyIDs :
          /\ (items[id].kid /\ items[id].state \in {StateActive, StateDisabled})
                => items'[id].key = items[id].key
          /\ (/\ \E p \in Procs : IsReEnableCall(p, id)
              /\ items[id].kid
              /\ items[id].state = StateDisabled)
                => /\ items'[id].state = StateActive
                   /\ GetKeysOf(items', {id}) = (id :> items[id].key)
          /\ (cache[id].state = StateDisabled /\ cache'[id].state = StateActive)
                => MemGetKeysOf(cache', {id}) = (id :> cache[id].key)]_vars

\* a get through the cache wrapper has returned a key that was created,
\* disabled and later re-enabled
C6_Witness ==
    /\ ret.op = "get"
    /\ ret.via = "cache"
    /\ "a" \in DOMAIN ret.keys
    /\ ret.keys["a"] = items["a"].key
    /\ items["a"].enabledAt > items["a"].createdAt

\* C7: the _disabledAt of a DISABLED key is the time of the disable that took
\* it out of another state; a further disable keeps it, and an ACTIVE key has
\* none.
C7_FirstDisableStamp ==
    [][\A id \in KeyIDs :
          /\ items'[id].state = StateDisabled
                => items'[id].disabledAt =
                      IF items[id].state = StateDisabled
                      THEN items[id].disabledAt
                      ELSE Unix(clock)
          /\ items'[id].state = StateActive => items'[id].disabledAt = 0]_vars

\* a key disabled a second time, later than the first: the stamp is the first
C7_Witness ==
    /\ items["a"].state = StateDisabled
    /\ items["a"].kid
    /\ items["a"].lsik = LsiDisabled(Unix(1))
    /\ items["a"].disabledAt = Unix(0)

\* the step of caller p is the query of DeleteUnusedKeys
IsSweepQuery(p) ==
    /\ pc[p] = "idle"
    /\ \/ pc'[p] = "sweep_del"
       \/ (ret'.op = "sweep" /\ ret'.proc = p)

\* the step of caller p is a DeleteKey of DeleteUnusedKeys
IsSweepDelete(p) == pc[p] = "sweep_del" /\ loc'[p] # loc[p]

\* C8: a sweep that runs more than the grace period after the first disable
\* of a key that was not re-enabled since gets the key from its query (and
\* deletes it), however often the key was disabled again.
C8_GraceFromFirstDisable ==
    [][\A p \in Procs, id \in KeyIDs :
          (/\ IsSweepQuery(p)
           /\ items[id].kid
           /\ items[id].state = StateDisabled
           /\ Unix(clock) > items[id].disabledAt + GracePeriod)
             => pc'[p] = "sweep_del" /\ Head(loc'[p].scan) = id]_vars

\* C9: a DeleteKey of the sweep changes only keys that are DISABLED and were
\* first disabled at least the grace period ago: ACTIVE keys and keys
\* disabled for less keep their item.
C9_SweepOnlyUnused ==
    [][\A p \in Procs, id \in KeyIDs :
          (IsSweepDelete(p) /\ items'[id] # items[id])
             => /\ items[id].state = StateDisabled
                /\ items[id].disabledAt + GracePeriod <= Unix(clock)]_vars

\* C10: when the key the sweep is about to delete has been re-enabled since
\* the sweep's query, and is ACTIVE, the sweep's DeleteKey leaves it ACTIVE.
C10_SweepSparesReEnabled ==
    [][\A p \in Procs :
          (IsSweepDelete(p) /\ items[Head(loc[p].scan)].state = StateActive)
             => items'[Head(loc[p].scan)].state = StateActive]_vars

\* C11: every key item that is DELETED has no key material left and no _lsik.
C11_DeletedErased ==
    \A id \in KeyIDs :
        items[id].state = StateDeleted
            => /\ items[id].key \in {Absent, Null}
               /\ items[id].lsik = NoLsi

\* C12: once Forget(id) has returned nil and until a Recover(id) returns nil,
\* every Decrypt of a struct of subject id whose data field holds ciphertext
\* leaves the replacement of the field's tag in the field, and returns nil.
C12_ForgottenReplaced ==
    [][\A p \in Procs, r \in Replacements :
          (/\ Decrypt(p, r)
           /\ prot.rec.id \in prot.forgot
           /\ isPackedPII(prot.rec.val))
              => /\ prot'.rec.val = r
                 /\ ret'.err = ErrNil]_vars

\* C13: in GracefulMode, a Recover(id) called after Forget(id) has returned
\* nil, while the key item is not DELETED and the store itself does not fail,
\* returns nil, whatever Clear calls were made in between.
C13_RecoverAfterForget ==
    [][(/\ ret'.via = "protector"
        /\ ret'.op = "recover"
        /\ ret'.base # ErrReEnableKeyFailure
        /\ prot.graceful
        /\ ret'.id \in prot.forgot
        /\ items[ret'.id].state # StateDeleted)
           => ret'.err = ErrNil]_vars

\* C14: an Encrypt of a struct of subject id with a non-empty data field that
\* was called after Forget(id) returned nil, with no Recover(id) returning nil
\* since, fails with ErrSubjectForgotten and leaves the field as it was.
C14_EncryptForgotten ==
    [][\A p \in Procs, n \in Nonces :
          (/\ EncryptApply(p, n)
           /\ prot.rec.id \in loc[p].fg
           /\ prot.rec.val # <<>>)
              => /\ ret'.err = ErrEncryptDecryptFailure
                 /\ ret'.base = ErrSubjectForgotten
                 /\ prot'.rec.val = prot.rec.val]_vars

\* C14: no step of such an Encrypt creates or changes the key item of id.
C14_NoNewKey ==
    [][\A p \in Procs :
          (/\ loc[p].prot
           /\ pc[p] # pc'[p]
           /\ prot.rec.id \in loc[p].fg)
              => items'[prot.rec.id] = items[prot.rec.id]]_vars

\* C15: a Recover returns ErrCannotRecoverSubject exactly when the engine's
\* re-enable returned ErrKeyNotFound, which it does after a Forget without
\* GracefulMode has returned nil, and ErrRecoverSubjectFailure exactly when
\* the engine returned another error.
C15_RecoverErrors ==
    [][(ret'.via = "protector" /\ ret'.op = "recover")
          => /\ ret'.err = ErrCannotRecoverSubject <=> ret'.base = ErrKeyNotFound
             /\ ret'.err = ErrRecoverSubjectFailure
                   <=> ret'.base \notin {ErrNil, ErrKeyNotFound}
             /\ (/\ ~prot.graceful
                 /\ ret'.id \in prot.forgot
                 /\ ret'.base # ErrReEnableKeyFailure)
                    => ret'.err = ErrCannotRecoverSubject]_vars

\* a Recover after a Forget without GracefulMode has returned
\* ErrCannotRecoverSubject
C15_Witness ==
    /\ ret.via = "protector"
    /\ ret.op = "recover"
    /\ ret.err = ErrCannotRecoverSubject
    /\ ret.base = ErrKeyNotFound
    /\ ~prot.graceful
    /\ ret.id \in prot.forgot
    /\ items[ret.id].state = StateDeleted

\* C16: a Decrypt of a struct on which Encrypt has returned nil, with no
\* other Decrypt of it and no Forget of its subject called since, returns nil and leaves in the data
\* field the plaintext the caller had put in it.
C16_RoundTrip ==
    [][\A p \in Procs, r \in Replacements :
          (Decrypt(p, r) /\ prot.rec.enc)
              => /\ ret'.err = ErrNil
                 /\ prot'.rec.val = prot.rec.orig]_vars

\* C16: the same for the plaintexts that isPackedPII does not take for packed.
C16_RoundTripUnpacked ==
    [][\A p \in Procs, r \in Replacements :
          (Decrypt(p, r) /\ prot.rec.enc /\ ~isPackedPII(prot.rec.orig))
              => /\ ret'.err = ErrNil
                 /\ prot'.rec.val = prot.rec.orig]_vars

\* C17: an Encrypt of a struct on which Encrypt has already returned nil,
\* with no Decrypt of it and no Forget of its subject called since, returns nil and leaves the
\* data field unchanged.
C17_EncryptIdempotent ==
    [][\A p \in Procs, n \in Nonces :
          (EncryptApply(p, n) /\ prot.rec.enc)
              => /\ ret'.err = ErrNil
                 /\ prot'.rec.val = prot.rec.val]_vars

\* a second Encrypt has returned, the data field holding ciphertext
C17_Witness ==
    /\ ret.via = "protector"
    /\ ret.op = "encrypt"
    /\ ret.err = ErrNil
    /\ prot.rec.again
    /\ isPackedPII(prot.rec.val)
    /\ prot.rec.val # prot.rec.orig

\* C18: every key that a GetOrCreateKeys through the KMS wrapper returns for
\* a key ID whose item a GetOrCreateKeys has created is the KMS decryption of
\* the key material stored in that item.
C18_KmsKeyOfStored ==
    (ret.via = "kms" /\ ret.op = "goc" /\ ret.err = ErrNil)
        => \A id \in DOMAIN ret.keys :
              items[id].kid
                  => ret.keys[id] =
                        decryptDataKey(KMSKeyOf(Namespace, id), items[id].key,
                                       Namespace).key

\* C19: a GetOrCreateKeys through the KMS wrapper whose keyGen produces keys
\* of 16, 32 or 64 bytes does not fail and asks for data keys of that length;
\* with no keyGen it asks for data keys of 32 bytes.
C19_KmsNumberOfBytes ==
    [][\A p \in Procs, ids \in SUBSET KeyIDs, keyLen \in {0, 16, 32, 64} :
          KmsGetOrCreateKeys(p, ids, keyLen)
              => /\ ret'.err = ErrNil
                 /\ pc'[p] # "idle"
                       => loc'[p].kms = IF keyLen = 0 THEN 32 ELSE keyLen]_vars

\* C20: the key material of every item created through the KMS wrapper is the
\* CiphertextBlob of a data key, and no key the wrapper returns equals the
\* material stored for its key ID.
C20_StoredIsCiphertext ==
    /\ \A id \in KeyIDs :
          items[id].kid
              => \E p \in Procs, n \in {16, 32, 64} :
                    items[id].key =
                        GenerateDataKey(p, id, KMSKeyOf(Namespace, id), Namespace,
                                        n).CiphertextBlob
    /\ (ret.via = "kms" /\ ret.op \in {"goc", "get"})
          => \A id \in DOMAIN ret.keys : ret.keys[id] # items[id].key

\* a GetOrCreateKeys through the KMS wrapper has returned a key it created
C20_Witness ==
    /\ ret.via = "kms"
    /\ ret.op = "goc"
    /\ ret.err = ErrNil
    /\ "a" \in DOMAIN ret.keys
    /\ items["a"].kid
    /\ ret.keys["a"] = decryptDataKey(KMSKeyOf(Namespace, "a"), items["a"].key,
                                      Namespace).key

\* C21: whenever the table holds a key item of the namespace, the namespace
\* is in the registry.
C21_NamespaceRegistered ==
    (\E id \in AllIDs : items[id].state # NoItem) => Namespace \in registry

\* C21: the same for the key items that GetOrCreateKeys created.
C21_CreatedRegistered ==
    (\E id \in AllIDs : items[id].kid) => Namespace \in registry

\* C22: a DisableKey of a DISABLED key, a ReEnableKey of an ACTIVE key and a
\* DeleteKey of a DELETED key on the store return nil and leave the state and
\* the key material of the item as they are.
C22_LifecycleIdempotent ==
    [][\A p \in Procs, id \in KeyIDs :
          (/\ pc[p] = "idle"
           /\ ret'.proc = p
           /\ ret'.via = "store"
           /\ ret'.id = id
           /\ \/ ret'.op = "disable" /\ items[id].state = StateDisabled
              \/ ret'.op = "reenable" /\ items[id].state = StateActive
              \/ ret'.op = "delete" /\ items[id].state = StateDeleted)
              => /\ ret'.err = ErrNil
                 /\ items'[id].state = items[id].state
                 /\ items'[id].key = items[id].key]_vars

\* C22: the same on the in-memory engine without an origin.
C22_MemIdempotent ==
    [][\A p \in Procs, id \in KeyIDs :
          (/\ pc[p] = "idle"
           /\ ret'.proc = p
           /\ ret'.id = id
           /\ cache[id].in
           /\ \/ ret'.op = "disable" /\ cache[id].state = StateDisabled
              \/ ret'.op = "reenable" /\ cache[id].state = StateActive
              \/ ret'.op = "delete" /\ cache[id].state = StateDeleted)
              => /\ ret'.err = ErrNil
                 /\ cache'[id] = cache[id]]_vars

\* a DeleteKey of a DELETED key has returned nil, after the clock went on
C22_Witness ==
    /\ ret.via = "store"
    /\ ret.op = "delete"
    /\ ret.err = ErrNil
    /\ items[ret.id].state = StateDeleted
    /\ items[ret.id].kid
    /\ items[ret.id].deletedAt < Unix(clock)

\* C22: the same for the cache entry of the wrapper, when the entry is there.
C22_WrapIdempotent ==
    [][\A p \in Procs, id \in KeyIDs :
          (/\ pc[p] \in {"w_disable", "w_renable", "w_delete"}
           /\ ret'.proc = p
           /\ ret'.via = "cache"
           /\ ret'.id = id
           /\ cache[id].in
           /\ \/ ret'.op = "disable" /\ cache[id].state = StateDisabled
              \/ ret'.op = "reenable" /\ cache[id].state = StateActive
              \/ ret'.op = "delete" /\ cache[id].state = StateDeleted)
              => /\ ret'.err = ErrNil
                 /\ cache'[id] = cache[id]]_vars

\* C23: a Tokenize that returns nil returns, for every value, the token the
\* last Tokenize returned for it, unless a DeleteToken came in between.
C23_TokenizeStable ==
    [][(ret'.op = "tokenize" /\ ret'.err = ErrNil)
          => \A v \in DOMAIN ret'.keys :
                tokens.last[v] # 0 => ret'.keys[v] = tokens.last[v]]_vars

\* C23: a Tokenize that returns nil returns, for every value that has a
\* token item when it returns, the token of one of these items.
C23_ExistingToken ==
    [][(ret'.op = "tokenize" /\ ret'.err = ErrNil)
          => \A v \in DOMAIN ret'.keys :
                (\E i \in tokens.table : i.tknv = v)
                   => TokenItem(ret'.keys[v], v) \in tokens.table]_vars

C24_OneProtector ==
    [][/\ \A p \in Procs, n \in DOMAIN fact.reg :
             (ret'.op = "instance" /\ ret'.proc = p /\ ret'.id = n)
                => /\ fact'.reg[n] # 0
                   /\ ret'.val = <<fact'.reg[n]>>
                   /\ fact'.held[p] = fact'.reg[n]
                   /\ fact.reg[n] # 0
                         => (fact'.reg[n] = fact.reg[n] /\ fact'.built = fact.built)
                   /\ fact.reg[n] = 0 => fact'.built = fact.built + 1
       /\ \A n, m \in DOMAIN fact.reg :
             (fact'.reg[n] # 0 /\ fact'.reg[n] = fact'.reg[m]) => n = m]_vars

\* both callers hold the one Protector built for a namespace
C24_Witness ==
    /\ ret.op = "instance"
    /\ fact.built = 1
    /\ fact.held["p1"] = 1
    /\ fact.held["p2"] = 1
    /\ fact.reg[ret.id] = 1

\* C25: as long as the context of the monitor is not cancelled, a step
\* removes a Protector from the registry exactly when it is a tick of the
\* monitor and the last markOp of the Protector is more than IDLE ago.
C25_IdleEviction ==
    [][fact.ctx = "live"
          => \A n \in DOMAIN fact.reg :
                fact.reg[n] # 0
                   => (fact'.reg[n] = 0
                          <=> (MonitorTick /\ fact.lastOpsAt[fact.reg[n]] + IdleDur < clock))]_vars

\* a tick has removed an idle Protector and has left one used since
C25_Witness ==
    /\ ret.op = "clear"
    /\ ret.ids # {}
    /\ fact.ctx = "live"
    /\ \E n \in DOMAIN fact.reg : fact.reg[n] # 0 /\ fact.lastOpsAt[fact.reg[n]] > 0

\* C26: once the context is cancelled, the running monitor makes in the end
\* one clear with force and with a context of its own that reaches every
\* registered Protector and leaves the registry empty.
C26_FinalClear ==
    (fact.ctx = "cancelled" /\ fact.monitor = "running")
       ~> (/\ fact.monitor = "stopped"
           /\ fact.final.done
           /\ fact.final.force
           /\ fact.final.ctx = "clearCtx"
           /\ fact.final.left = {})

\* the final clear has removed a Protector that was not idle
C26_Witness ==
    /\ fact.final.done
    /\ fact.final.left = {}
    /\ \E tp \in fact.final.had : fact.lastOpsAt[tp] + IdleDur >= clock

\* C28: a DisableKey or RenableKey of the cache wrapper whose origin returned
\* nil returns nil when the key ID has no entry in the cache.
C28_NoEntrySucceeds ==
    [][\A p \in Procs :
          (/\ pc[p] \in {"w_disable", "w_renable"}
           /\ ret'.proc = p
           /\ ret'.via = "cache"
           /\ ~cache[ret'.id].in)
              => ret'.err = ErrNil]_vars

\* C29: a GetKeys of the cache wrapper asks the origin for every requested
\* key ID that is not cached as ACTIVE, caches what the origin returns and
\* returns it together with the cached ACTIVE keys.
C29_ForwardsNotActive ==
    [][\A p \in Procs :
          (pc[p] = "idle" /\ ret'.proc = p /\ ret'.via = "cache" /\ ret'.op = "get")
             => LET missedKeys == {x \in ret'.ids :
                                     ~(cache[x].in /\ cache[x].state = StateActive)}
                    keys == GetKeysOf(items, missedKeys)
                IN /\ ret'.keys = keys @@ MemGetKeysOf(cache, ret'.ids)
                   /\ cache' = CachePut(cache, keys, clock)]_vars

\* C29: a GetKeys of the cache wrapper asks the origin for the requested key
\* IDs that have no cache entry, whatever its state, caches what the origin
\* returns and returns it together with the cached ACTIVE keys.
C29_ForwardsUncached ==
    [][\A p \in Procs :
          (pc[p] = "idle" /\ ret'.proc = p /\ ret'.via = "cache" /\ ret'.op = "get")
             => LET missedKeys == {x \in ret'.ids : ~cache[x].in}
                    keys == GetKeysOf(items, missedKeys)
                IN /\ ret'.keys = keys @@ MemGetKeysOf(cache, ret'.ids)
                   /\ cache' = CachePut(cache, keys, clock)
                   /\ \A x \in ret'.ids :
                         (cache[x].in /\ cache[x].state # StateActive)
                            => (x \notin DOMAIN ret'.keys /\ cache'[x] = cache[x])]_vars

\* a GetKeys of the wrapper has left out a key that is cached as DISABLED
\* and ACTIVE in the store
C29_Witness ==
    /\ ret.via = "cache"
    /\ ret.op = "get"
    /\ "a" \in ret.ids
    /\ "a" \notin DOMAIN ret.keys
    /\ cache["a"].in
    /\ cache["a"].state = StateDisabled
    /\ items["a"].state = StateActive
    /\ items["a"].key \notin {Absent, Null}

\* C30: when the cache wrapper is the only client of the store and no call
\* is in progress, every cache entry has the state of the stored item, and
\* its key when it is ACTIVE.
C30_CacheMatchesStore ==
    (\A p \in Procs : pc[p] = "idle")
       => \A id \in KeyIDs :
             cache[id].in
                => /\ cache[id].state = items[id].state
                   /\ cache[id].state = StateActive => cache[id].key = KeyBytes(items[id])

\* C31: a DisableKey or RenableKey of the cache wrapper whose origin returns
\* ErrKeyNotFound, which the store does for a DELETED item, returns that
\* error at once and leaves the whole cache as it is; and so does every
\* lifecycle call of the wrapper that returns from its origin with that error.
C31_NotFoundNoMutation ==
    [][\A p \in Procs, id \in KeyIDs :
          /\ ((CacheDisableKey(p, id) \/ CacheRenableKey(p, id))
                 /\ ~NotDeleted(items[id]))
                => /\ ret' = [ret' EXCEPT !.proc = p, !.via = "cache", !.id = id,
                                          !.err = ErrKeyNotFound]
                   /\ ret'.op \in {"disable", "reenable"}
                   /\ pc'[p] = "idle"
                   /\ cache' = cache
          /\ (/\ pc[p] = "idle"
              /\ ret'.proc = p
              /\ ret'.via = "cache"
              /\ ret'.op \in {"disable", "reenable", "delete"}
              /\ ret'.err = ErrKeyNotFound)
                => cache' = cache]_vars

\* a DisableKey of the wrapper has returned the ErrKeyNotFound of its origin
\* and the cache still holds the key as ACTIVE
C31_Witness ==
    /\ ret.via = "cache"
    /\ ret.op = "disable"
    /\ ret.err = ErrKeyNotFound
    /\ items[ret.id].state = StateDeleted
    /\ cache[ret.id].in
    /\ cache[ret.id].state = StateActive
    /\ cache[ret.id].key # NoBytes

\* C32: every key item in state ACTIVE holds key material that is not empty.
C32_ActiveHasMaterial ==
    \A id \in AllIDs : items[id].state = StateActive => KeyBytes(items[id]) # NoBytes

\* C32: no GetKeys and no GetOrCreateKeys of the store returns an empty key
\* for a key ID.
C32_NoEmptyKey ==
    (ret.via = "store" /\ ret.op \in {"get", "goc"})
       => \A id \in DOMAIN ret.keys : ret.keys[id] # NoBytes

\* C33: the _lsik of every key item is enabled@<keyID> when the item is
\* ACTIVE, disabled@<unix seconds of a time up to now> when it is DISABLED,
\* and not set when it is DELETED or when there is no item.
C33_SweepToken ==
    \A id \in AllIDs :
       /\ items[id].state = StateActive => items[id].lsik = LsiEnabled(id)
       /\ items[id].state = StateDisabled
             => \E t \in 0..clock : items[id].lsik = LsiDisabled(Unix(t))
       /\ items[id].state \in {StateDeleted, NoItem} => items[id].lsik = NoLsi

\* a key that was created and disabled before is ACTIVE again after a
\* ReEnableKey
C33_Witness ==
    /\ ret.via = "store"
    /\ ret.op = "reenable"
    /\ ret.err = ErrNil
    /\ items[ret.id].kid
    /\ items[ret.id].state = StateActive
    /\ items[ret.id].lsik = LsiEnabled(ret.id)
    /\ items[ret.id].enabledAt > items[ret.id].createdAt

\* C34: a GetOrCreateKeys one of whose store calls fails, not on a
\* condition, returns to its caller with ErrGetKeyFailure or
\* ErrPersistKeyFailure and without a key for the key IDs the call was for.
C34_StoreErrorReturned ==
    [][\A p \in Procs :
          /\ ((\E ids \in SUBSET KeyIDs : GetKeysError(p, ids)) \/ addNamespaceError(p))
                => /\ ret'.proc = p
                   /\ ret'.err \in {ErrGetKeyFailure, ErrPersistKeyFailure}
                   /\ ret'.keys = EmptyMap
          /\ (createKeysError(p) \/ \E out \in {"nil", "empty"} : handleExistError(p, out))
                => /\ ret'.proc = p
                   /\ ret'.err \in {ErrGetKeyFailure, ErrPersistKeyFailure}
                   /\ Head(loc[p].todo) \notin DOMAIN ret'.keys]_vars

\* C34: the same for the query, for addNamespace and for createKeys' PutItem.
C34_OtherCallsReturned ==
    [][\A p \in Procs :
          /\ ((\E ids \in SUBSET KeyIDs : GetKeysError(p, ids)) \/ addNamespaceError(p))
                => /\ ret'.proc = p
                   /\ ret'.err \in {ErrGetKeyFailure, ErrPersistKeyFailure}
                   /\ ret'.keys = EmptyMap
          /\ createKeysError(p)
                => /\ ret'.proc = p
                   /\ ret'.err \in {ErrGetKeyFailure, ErrPersistKeyFailure}
                   /\ Head(loc[p].todo) \notin DOMAIN ret'.keys]_vars

\* C35: a Decrypt of a struct whose data field holds a ciphertext made with
\* the key of subject A, in a struct whose subjectID field names another
\* subject, puts the plaintext in the field when GetKeys of the Protector's
\* engine has a key for A, and the replacement when it has none.
C35_KeyByEmbeddedSubject ==
    [][(/\ ret'.op = "decrypt"
        /\ isPackedPII(prot.rec.val)
        /\ unpackPII(prot.rec.val)[1][4][2] # prot.rec.id)
          => LET c == unpackPII(prot.rec.val)[1]
                 A == c[4][2]
                 keys == GetKeysOf(items, {x \in {A} : ~cache[x].in})
                            @@ MemGetKeysOf(cache, {A})
             IN IF A \in DOMAIN keys
                THEN ret'.err = ErrNil /\ prot'.rec.val = c[5]
                ELSE ret'.err = ErrNil /\ prot'.rec.val \in Replacements]_vars

\* C35: such a Decrypt takes the key of the subject the struct names: it
\* fails on the ciphertext of A when that subject has a key, and puts the
\* replacement when that subject has none.
C35_KeyByRecordSubject ==
    [][(/\ ret'.op = "decrypt"
        /\ isPackedPII(prot.rec.val)
        /\ unpackPII(prot.rec.val)[1][4][2] # prot.rec.id)
          => LET B == prot.rec.id
                 keys == GetKeysOf(items, {x \in {B} : ~cache[x].in})
                            @@ MemGetKeysOf(cache, {B})
             IN IF B \in DOMAIN keys
                THEN /\ ret'.err = ErrEncryptDecryptFailure
                     /\ ret'.base = ErrDecryptionFailure
                     /\ prot'.rec.val = prot.rec.val
                ELSE ret'.err = ErrNil /\ prot'.rec.val \in Replacements]_vars

\* C36: a Decrypt leaves the data field as it is when its value is not a
\* packed ciphertext, whether the subject of the struct has a key or not.
C36_PlainUntouched ==
    [][(ret'.op = "decrypt" /\ ~isPackedPII(prot.rec.val))
          => prot'.rec.val = prot.rec.val]_vars

\* C36: the same when GetKeys of the Protector's engine has a key for the
\* subject of the struct.
C36_PlainUntouchedWithKey ==
    [][(/\ ret'.op = "decrypt"
        /\ ~isPackedPII(prot.rec.val)
        /\ prot.rec.id \in DOMAIN (GetKeysOf(items, {x \in {prot.rec.id} : ~cache[x].in})
                                      @@ MemGetKeysOf(cache, {prot.rec.id})))
          => (ret'.err = ErrNil /\ prot'.rec.val = prot.rec.val)]_vars

\* C37: a DisableKey, ReEnableKey or DeleteKey of the store on a key ID
\* changes the item of no other key ID, and a DeleteKey of the sweep changes
\* the item of a key ID only when that key is eligible: DISABLED, with a
\* _lsik up to disabled@<now - grace period>.
C37_OthersUntouched ==
    [][\A p \in Procs, x \in AllIDs :
          /\ (/\ pc[p] = "idle"
              /\ ret'.proc = p
              /\ ret'.via = "store"
              /\ ret'.op \in {"disable", "reenable", "delete"}
              /\ ret'.id # x)
                => items'[x] = items[x]
          /\ (IsSweepDelete(p) /\ items'[x] # items[x])
                => /\ items[x].state = StateDisabled
                   /\ LsiLE(items[x].lsik, LsiDisabled(Unix(clock - GracePeriod)))]_vars

\* C37: the same for the lifecycle calls alone, and of the sweep only that
\* its DeleteKey changes no item but the one of the key ID it read.
C37_TargetOnly ==
    [][\A p \in Procs, x \in AllIDs :
          /\ (/\ pc[p] = "idle"
              /\ ret'.proc = p
              /\ ret'.via = "store"
              /\ ret'.op \in {"disable", "reenable", "delete"}
              /\ ret'.id # x)
                => items'[x] = items[x]
          /\ (IsSweepDelete(p) /\ items'[x] # items[x]) => x = Head(loc[p].scan)]_vars

\* C38: the table holds at most one token item for a value, and a Tokenize
\* that returns nil returns for every value the token of that item.
C38_OneTokenPerValue ==
    /\ \A i, j \in tokens.table : i.tknv = j.tknv => i = j
    /\ (ret.op = "tokenize" /\ ret.err = ErrNil)
          => \A v \in DOMAIN ret.keys : TokenItem(ret.keys[v], v) \in tokens.table

\* C39: in the tokenCache, a token has an entry with value v in tokenToValue
\* exactly when v has an entry with that token in valueToToken.
C39_MapsAgree ==
    \A t \in 1..MaxTokens, v \in TokenValues :
       (t \in DOMAIN tokens.tokenToValue /\ tokens.tokenToValue[t].Value = v)
          <=> (v \in DOMAIN tokens.valueToToken /\ tokens.valueToToken[v].Token = t)

\* C39: the same in every behaviour in which only one caller ever calls the
\* TokenEngine.
C39_MapsAgreeOneCaller ==
    [](pc["p2"] = "idle" /\ ret.proc # "p2") => []C39_MapsAgree

\* C40: a call of the FactoryClearFunc that Instance returned to a caller
\* returns without a failure and has cleared the Protector that Instance
\* returned with it, whatever the monitor did since.
C40_ClearFuncSafe ==
    [][\A p \in Procs :
          (ret'.proc = p /\ ret'.op = "clearfunc")
             => /\ ret'.err = ErrNil
                /\ ret'.val = <<fact.held[p]>>]_vars

\* C40: the same for the calls made while the Protector that Instance
\* returned is still the one registered for the namespace, and that do not
\* run into a write of the registry.
C40_ClearFuncRegistered ==
    [][\A p \in Procs :
          (/\ ret'.proc = p
            /\ ret'.op = "clearfunc"
            /\ fact.reg[fact.clearNs[p]] = fact.held[p]
            /\ ~FactoryClearFunc(p, TRUE))
             => /\ ret'.err = ErrNil
                /\ ret'.val = <<fact.held[p]>>]_vars

\* C40: no call of a FactoryClearFunc panics.
C40_NoPanic == ~(ret.op = "clearfunc" /\ ret.err = PanicNilDeref)

\* C40: a FactoryClearFunc clears no Protector but the one it came with.
C40_NoOtherProtector ==
    [][\A p \in Procs :
          (ret'.proc = p /\ ret'.op = "clearfunc" /\ ret'.err = ErrNil)
             => ret'.val = <<fact.held[p]>>]_vars
====
